---- MODULE Spec2Model ----
(***************************************************************************)
(* Model of the client-side measurement engine of infobits-speedtest.      *)
(*                                                                         *)
(* The adaptive engine is static/js/speedtest.js lines 1-1264; the earlier *)
(* static engine is lines 1266-1851 of the same file; the Next.js client   *)
(* is src/utils/speedTestUtils.ts.                                         *)
(*                                                                         *)
(* The browser runs the engine on one thread: every action below is one    *)
(* task of the event loop (an event handler or the continuation of an      *)
(* await) together with the microtasks it triggers.  performance.now() is  *)
(* modelled by the variable now, a clock that shows ClockReadings only.    *)
(***************************************************************************)
EXTENDS Integers, Sequences, FiniteSets, TLC

(***************************************************************************)
(* Program constants (speedtest.js lines 2-10).                            *)
(***************************************************************************)
PING_TESTS == 25
PROBE_COUNT == 3
TARGET_DL_DURATION == 45
TARGET_UL_DURATION == 45
WARMUP_DURATION == 5
GRACE_MS == 5000
STAGGER_MS == 200
SPEED_LIMIT == 50000
CRYPTO_BLOCK_SIZE == 65536
STATIC_MEASUREMENT_INTERVAL == 200
MiB == 1024 * 1024

(***************************************************************************)
(* Bounds of the model.                                                    *)
(***************************************************************************)
\* The readings (ms since the start of a throughput phase) the modelled
\* clock shows: the phase start, a reading within the warm-up, the warm-up
\* boundary, a reading between it and the target duration, the target
\* duration and the expiry of the grace timer.
ClockReadings ==
    {0, WARMUP_DURATION * 500, WARMUP_DURATION * 1000,
     2 * WARMUP_DURATION * 1000,
     TARGET_DL_DURATION * 1000, TARGET_UL_DURATION * 1000,
     TARGET_DL_DURATION * 1000 + GRACE_MS,
     TARGET_UL_DURATION * 1000 + GRACE_MS}
\* Number of XHR events (progress, load, error, timeout) the network
\* delivers in a run that is followed from the start button (RunEvents) and
\* in a run that is followed from the start of a throughput phase
\* (PhaseEvents).
RunEvents == 1
PhaseEvents == 3
\* Only the streams in slots 0 .. EventSlots-1 receive XHR events; the
\* other streams stay in flight until they are aborted.
EventSlots == 2
\* Speeds (Mbps) a probe request can measure; even, so that the mean of
\* two of them is an integer.
ProbeSpeeds == {0, 4, 30, 300, 800}
\* Megabits carried by one progress event.
ProgressMbit == {0, 40}
\* Round-trip times a ping can measure, in microseconds.
PingValues == {20000}
\* Speed factors (percent of the base speed) the simulation can draw.
SimFactors == {95, 105}

\* Chunks a body reader yields before it reports the end of the body.
MaxReads == 3
\* Time (ms) a fetch or a read of a body takes.
CallDelays == {100, 3000}
\* Megabits in a chunk a body reader yields.
ReadMbit == {8, 80}
\* Durations (ms) the server reports for an upload; 0: no usable report;
\* 5000: longer than any request takes.
ServerDurations == {0, 50, 5000}
\* Values of Math.random(), in percent.
RandomDraws == {0, 50}

\* A request that fails (fetch rejects), and JavaScript's null.
FAIL == -1
NULL == -2
\* A response whose status is not 2xx.
NOTOK == -3

TestStatus == [IDLE |-> "idle", PROBING |-> "probing", DOWNLOAD |-> "download",
               UPLOAD |-> "upload", COMPLETE |-> "complete"]

VARIABLES
    isLocal,            \* window.location.hostname is localhost / 127.0.0.1
    pc,                 \* position of startTest
    runs,               \* number of runs started
    isRunning, testStatus, testResult, connectionType,
    downloadFileSize, uploadChunkSize, uploadConcurrency, downloadConcurrency,
    downloadRequestCount, uploadRequestCount,
    activeDownloadRequests, activeUploadRequests,
    testStartTime, speedSamples,
    now,                \* performance.now()
    probe,              \* locals of probeConnectionSpeed
    probeSpeed,         \* const probeSpeed of startTest
    ping,               \* locals of measureLatency
    xhrs,               \* every XMLHttpRequest created in the current run
    phase,              \* locals of the running throughput phase
    netBudget,          \* XHR events the network will still deliver
    statusLog,          \* statuses passed to updateStatus in the current run
    returned,           \* phases of the current run that have returned
    rejected,           \* phases of the current run whose promise rejected
    call,               \* a call of a measurement function of another revision
    fill,               \* a buffer being filled with secure random bytes
    server,             \* a GET /testfile request being answered
    events,             \* the progress events dispatched in a throughput phase
    run,                \* a run of runSpeedTest of the Next.js client
    progressInterval    \* the interval of startProgressTracking is set

vars == <<isLocal, pc, runs, isRunning, testStatus, testResult, connectionType,
          downloadFileSize, uploadChunkSize, uploadConcurrency,
          downloadConcurrency, downloadRequestCount, uploadRequestCount,
          activeDownloadRequests, activeUploadRequests, testStartTime,
          speedSamples, now, probe, probeSpeed, ping, xhrs, phase,
          netBudget, statusLog, returned, rejected, call, fill, server,
          events, run, progressInterval>>


(***************************************************************************)
(* Helpers.                                                                *)
(***************************************************************************)
Min(a, b) == IF a <= b THEN a ELSE b
Max(a, b) == IF a >= b THEN a ELSE b

RECURSIVE SumSeq(_)
SumSeq(s) == IF s = <<>> THEN 0 ELSE Head(s) + SumSeq(Tail(s))

\* A speed in Mbps is the exact fraction n / d.
Rat(n, d) == [n |-> n, d |-> d]
RatLess(a, b) == a.n * b.d < b.n * a.d

\* The index i inserted into idx, a sequence of indices of keys sorted by
\* key, before the first index whose key is greater.  Equal keys keep their
\* order, as in Array.prototype.sort, which is stable.
RECURSIVE InsertSorted(_, _, _)
InsertSorted(i, idx, keys) ==
    IF idx = <<>> THEN <<i>>
    ELSE IF RatLess(keys[i], keys[Head(idx)]) THEN <<i>> \o idx
    ELSE <<Head(idx)>> \o InsertSorted(i, Tail(idx), keys)

\* The indices 1 .. n of keys, sorted ascending by key.
RECURSIVE SortedIndices(_, _)
SortedIndices(keys, n) ==
    IF n = 0 THEN <<>>
    ELSE InsertSorted(n, SortedIndices(keys, n - 1), keys)

\* Array.prototype.sort((a, b) => a - b) on numbers.
SortNums(s) ==
    LET keys == [i \in 1..Len(s) |-> Rat(s[i], 1)]
        idx == SortedIndices(keys, Len(s))
    IN [i \in 1..Len(s) |-> s[idx[i]]]

\* Array.prototype.slice(from, to) on a sequence (0-based, to exclusive).
Slice(s, from, to) == SubSeq(s, from + 1, to)

(***************************************************************************)
(* probeConnectionSpeed: the median of the probe results and the tier.     *)
(***************************************************************************)
\* speedtest.js lines 228-239
ProbeFinalSpeed(probeResults) ==
    IF Len(probeResults) > 0
    THEN LET sorted == SortNums(probeResults)
             midIndex == Len(sorted) \div 2
         IN IF Len(sorted) % 2 = 0
            THEN (sorted[midIndex] + sorted[midIndex + 1]) \div 2
            ELSE sorted[midIndex + 1]
    ELSE 50

\* speedtest.js lines 245-260
ClassifyTier(finalSpeed) ==
    IF finalSpeed < 10 THEN "slow"
    ELSE IF finalSpeed < 50 THEN "moderate"
    ELSE IF finalSpeed < 200 THEN "fast"
    ELSE IF finalSpeed < 750 THEN "very-fast"
    ELSE "ultra-fast"

\* speedtest.js lines 301-333: the parameters adjustTestParameters assigns.
AdjustedParameters(ct) ==
    IF ct = "slow" THEN
        [downloadFileSize |-> 5 * MiB, uploadChunkSize |-> 256 * 1024,
         uploadConcurrency |-> 1, downloadConcurrency |-> 1]
    ELSE IF ct = "moderate" THEN
        [downloadFileSize |-> 15 * MiB, uploadChunkSize |-> 512 * 1024,
         uploadConcurrency |-> 2, downloadConcurrency |-> 2]
    ELSE IF ct = "fast" THEN
        [downloadFileSize |-> 50 * MiB, uploadChunkSize |-> 1 * MiB,
         uploadConcurrency |-> 3, downloadConcurrency |-> 3]
    ELSE IF ct = "very-fast" THEN
        [downloadFileSize |-> 100 * MiB, uploadChunkSize |-> 2 * MiB,
         uploadConcurrency |-> 4, downloadConcurrency |-> 4]
    ELSE
        [downloadFileSize |-> 250 * MiB, uploadChunkSize |-> 4 * MiB,
         uploadConcurrency |-> 6, downloadConcurrency |-> 6]

(***************************************************************************)
(* calculateFinalSpeed and calculateFallbackSpeed.                         *)
(***************************************************************************)
\* A fallback that ignores the tier and the direction.
DefaultFallback(ct, testType) == 10

\* speedtest.js lines 1063-1076
calculateFallbackSpeed(ct, testType) ==
    LET dl == testType = "download"
    IN IF ct = "ultra-fast" THEN (IF dl THEN 1000 ELSE 800)
       ELSE IF ct = "very-fast" THEN (IF dl THEN 500 ELSE 400)
       ELSE IF ct = "fast" THEN (IF dl THEN 100 ELSE 80)
       ELSE IF ct = "moderate" THEN (IF dl THEN 30 ELSE 25)
       ELSE IF ct = "slow" THEN (IF dl THEN 5 ELSE 3)
       ELSE 10

\* A sort that leaves the samples in the order they were appended in.
AppendOrder(samples) == samples

\* speedtest.js line 1027: samples.sort((a, b) => a.speed - b.speed)
SortSamples(samples) ==
    LET keys == [i \in 1..Len(samples) |-> samples[i].speed]
        idx == SortedIndices(keys, Len(samples))
    IN [i \in 1..Len(samples) |-> samples[idx[i]]]

\* The index of the median, whatever the tier.
MedianIndex(ct, len) == len \div 2

\* speedtest.js lines 1032-1057: the index floor(len * p); p in percent.
PercentileIndex(ct, len) ==
    IF ct = "ultra-fast" THEN (len * 90) \div 100
    ELSE IF ct = "very-fast" THEN (len * 85) \div 100
    ELSE IF ct = "fast" THEN (len * 80) \div 100
    ELSE IF ct = "moderate" THEN (len * 75) \div 100
    ELSE (len * 50) \div 100

\* speedtest.js lines 1021-1060
calculateFinalSpeed(samples, ct, testType) ==
    IF Len(samples) = 0
    THEN Rat(calculateFallbackSpeed(ct, testType), 1)
    ELSE SortSamples(samples)[PercentileIndex(ct, Len(samples)) + 1].speed

(***************************************************************************)
(* measureLatency: the reduction of the ping samples (microseconds; a      *)
(* mean is truncated to a whole microsecond).                              *)
(***************************************************************************)
Mean(s) == SumSeq(s) \div Max(1, Len(s))

\* speedtest.js lines 436-440
MedianOfSorted(t) ==
    LET mid == Len(t) \div 2
    IN IF Len(t) % 2 = 0 THEN (t[mid] + t[mid + 1]) \div 2 ELSE t[mid + 1]

\* A cutoff that trims half of the pings from each end.
HalfCutoff(ct, n) == (n + 1) \div 2

\* speedtest.js lines 428-433: floor(n * outlierFactor)
PingCutoff(ct, n) ==
    IF ct \in {"ultra-fast", "very-fast"} THEN (n * 2) \div 10 ELSE n \div 10

\* speedtest.js lines 425-434: trimmedPings
TrimmedPings(pingResults, ct) ==
    LET n == Len(pingResults)
        sortedPings == SortNums(pingResults)
        cutoff == PingCutoff(ct, n)
    IN Slice(sortedPings, cutoff, n - cutoff)

\* A result that ignores the measurements.
LatencyDefault(pingResults, jitterValues, ct, local) ==
    [latency |-> 10000, jitter |-> 2000]

\* speedtest.js lines 423-480
LatencyResult(pingResults, jitterValues, ct, local) ==
    LET n == Len(pingResults)
        trimmedPings == TrimmedPings(pingResults, ct)
        sortedJitter == SortNums(jitterValues)
        jitterCutoff == Len(jitterValues) \div 10
        trimmedJitter == Slice(sortedJitter, jitterCutoff,
                               Len(jitterValues) - jitterCutoff)
        latency == IF n >= 5 THEN MedianOfSorted(trimmedPings)
                   ELSE IF n > 0 THEN Mean(pingResults) ELSE 10000
        jitter == IF n >= 5
                  THEN (IF Len(jitterValues) >= 3 THEN Mean(trimmedJitter)
                        ELSE Mean(jitterValues))
                  ELSE IF Len(jitterValues) > 0 THEN Mean(jitterValues)
                  ELSE 2000
    IN IF local /\ latency < 500
       THEN [latency |-> Max(latency, 500), jitter |-> Max(jitter, 100)]
       ELSE [latency |-> latency, jitter |-> jitter]

(***************************************************************************)
(* State after the script has loaded (speedtest.js lines 13-18, 47-71).    *)
(***************************************************************************)
\* No measurement function of another revision has been called.
NoCall ==
    [engine |-> "none", fn |-> "none", local |-> FALSE, pc |-> "idle",
     i |-> 0, samples |-> <<>>, mbit |-> 0, ms |-> 0, sinceMbit |-> 0,
     sinceMs |-> 0, base |-> Rat(0, 1), outcome |-> "none", result |-> Rat(0, 1)]

\* speedtest.js lines 187-190: the locals of probeConnectionSpeed; outcomes
\* lists what the probe requests issued so far have settled as.
NoProbe == [results |-> <<>>, i |-> 0, outcomes |-> <<>>]

NoPing == [i |-> 0, results |-> <<>>, jitter |-> <<>>, last |-> NULL]

\* No buffer is being filled: fn is the function filling it, calls lists the
\* sub-ranges passed to crypto.getRandomValues so far.
NoFill == [fn |-> "none", size |-> 0, offset |-> 0, calls |-> <<>>,
           outcome |-> "none"]

\* No request is being answered.
NoServer == [handler |-> "none", pc |-> "idle", requested |-> 0,
             announced |-> 0, bytesRemaining |-> 0, written |-> 0]

\* The SpeedTest component after mounting (SpeedTest.tsx lines 13-23):
\* runSpeedTest has not been called.  log lists the calls of onProgress of
\* the current call, written the fields of its result assigned so far;
\* sinceMs is performance.now() - lastTime and elapsedMs is
\* performance.now() - startTime of the measurement function that runs.
NoRun == [pc |-> "idle", isRunning |-> FALSE, showResults |-> FALSE,
          log |-> <<>>, written |-> {}, i |-> 0, totalBytes |-> 0,
          lastProgress |-> 0, sinceMs |-> 0, elapsedMs |-> 0]

NoPhase ==
    [kind |-> "none", launched |-> 0, promises |-> <<>>, streams |-> <<>>,
     race |-> "none", timerSetAt |-> 0, simFired |-> FALSE]

Loaded(local) ==
    /\ isLocal = local
    /\ pc = "idle"
    /\ runs = 0
    /\ isRunning = FALSE
    /\ testStatus = TestStatus.IDLE
    /\ testResult = [downloadSpeed |-> Rat(0, 1), uploadSpeed |-> Rat(0, 1),
                     latency |-> 0, jitter |-> 0]
    /\ connectionType = "unknown"
    /\ downloadFileSize = 25 * MiB
    /\ uploadChunkSize = 1 * MiB
    /\ uploadConcurrency = 1
    /\ downloadConcurrency = 1
    /\ downloadRequestCount = 0
    /\ uploadRequestCount = 0
    /\ activeDownloadRequests = <<>>
    /\ activeUploadRequests = <<>>
    /\ testStartTime = 0
    /\ speedSamples = <<>>
    /\ now = 0
    /\ probe = NoProbe
    /\ probeSpeed = NULL
    /\ ping = NoPing
    /\ xhrs = <<>>
    /\ phase = NoPhase
    /\ statusLog = <<>>
    /\ returned = {}
    /\ rejected = {}
    /\ progressInterval = FALSE

\* Nothing beside the adaptive engine is active.
OthersIdle ==
    /\ fill = NoFill
    /\ server = NoServer
    /\ events = <<>>
    /\ run = NoRun

Init ==
    /\ \E local \in BOOLEAN : Loaded(local)
    /\ OthersIdle
    /\ netBudget = RunEvents
    /\ call = NoCall

(***************************************************************************)
(* XMLHttpRequest objects.  abort() on a request in flight fires its       *)
(* onabort handler synchronously; on a finished request it does nothing.   *)
(***************************************************************************)
InFlight(x) == x.state = "inflight"

\* The requests after abort() has been invoked on those listed in ids.
AbortedAll(xs, ids) ==
    [r \in DOMAIN xs |->
        IF (\E k \in DOMAIN ids : ids[k] = r) /\ InFlight(xs[r])
        THEN [xs[r] EXCEPT !.state = "aborted"]
        ELSE xs[r]]

\* An onabort handler that rejects the promise of the stream.
PromisesRejectedByAbort(ps, xs, ids) ==
    [s \in DOMAIN ps |->
        IF /\ ps[s] = "pending"
           /\ \E k \in DOMAIN ids :
                 /\ ids[k] \in DOMAIN xs
                 /\ InFlight(xs[ids[k]])
                 /\ xs[ids[k]].promise = s
        THEN "rejected"
        ELSE ps[s]]

\* speedtest.js lines 649-652, 854-857: onabort resolves the promise of the
\* stream; resolving a settled promise changes nothing.
PromisesAfterAbort(ps, xs, ids) ==
    [s \in DOMAIN ps |->
        IF /\ ps[s] = "pending"
           /\ \E k \in DOMAIN ids :
                 /\ ids[k] \in DOMAIN xs
                 /\ InFlight(xs[ids[k]])
                 /\ xs[ids[k]].promise = s
        THEN "resolved"
        ELSE ps[s]]

\* The requests the engine still holds or the network still serves: a
\* finished request that no list holds is garbage.
Live(xs) == SelectSeq(xs, InFlight)

(***************************************************************************)
(* startTest and probeConnectionSpeed.                                     *)
(***************************************************************************)
paramVars == <<downloadFileSize, uploadChunkSize, uploadConcurrency,
               downloadConcurrency>>
requestVars == <<downloadRequestCount, uploadRequestCount,
                 activeDownloadRequests, activeUploadRequests, xhrs, netBudget>>
measureVars == <<testStartTime, speedSamples, phase>>
\* The state of the other components, which the steps of the adaptive
\* engine never touch, and with it the progress timer, which most of them
\* leave alone.
componentVars == <<fill, server, events, run>>
otherVars == <<componentVars, progressInterval>>
\* The state of the adaptive engine.
engineVars == <<isLocal, pc, runs, isRunning, testStatus, testResult,
                connectionType, paramVars, requestVars, measureVars, now,
                probe, probeSpeed, ping, xhrs, netBudget, statusLog, returned,
                rejected, progressInterval>>

\* speedtest.js lines 1127-1158: updateStatus
UpdateStatus(status) ==
    /\ testStatus' = status
    /\ statusLog' = Append(statusLog, status)

\* speedtest.js lines 84-96, 136-164, 181-195: startTest past its guard:
\* reset, status PROBING, and the small probe is sent.
BeginRun ==
    /\ runs' = runs + 1
    /\ isRunning' = TRUE
    /\ speedSamples' = <<>>
    /\ downloadRequestCount' = 0
    /\ uploadRequestCount' = 0
    /\ xhrs' = Live(AbortedAll(AbortedAll(xhrs, activeDownloadRequests),
                               activeUploadRequests))
    /\ activeDownloadRequests' = <<>>
    /\ activeUploadRequests' = <<>>
    /\ testStatus' = TestStatus.PROBING
    /\ statusLog' = <<TestStatus.PROBING>>
    /\ returned' = {}
    /\ rejected' = {}
    /\ probe' = NoProbe
    /\ progressInterval' = FALSE
    /\ pc' = "probe_small"
    /\ UNCHANGED <<componentVars, call, isLocal, testResult, connectionType, paramVars,
                   testStartTime, now, probeSpeed, ping, phase, netBudget>>

\* speedtest.js lines 80-96: a click on the start button while no test runs,
\* in a page that has run no test yet.
StartTest ==
    /\ pc = "idle"
    /\ ~isRunning
    /\ runs = 0
    /\ BeginRun

\* speedtest.js lines 96-100, 301-333: probeConnectionSpeed returns v with
\* the tier ct, leaving its locals; startTest adjusts the parameters and
\* pauses 500 ms.
ProbeReturns(v, ct, locals) ==
    /\ connectionType' = ct
    /\ probeSpeed' = v
    /\ downloadFileSize' = AdjustedParameters(ct).downloadFileSize
    /\ uploadChunkSize' = AdjustedParameters(ct).uploadChunkSize
    /\ uploadConcurrency' = AdjustedParameters(ct).uploadConcurrency
    /\ downloadConcurrency' = AdjustedParameters(ct).downloadConcurrency
    /\ probe' = locals
    /\ returned' = returned \cup {"probe"}
    /\ pc' = "pause1"

\* A test for a very slow connection that no speed passes.
NeverVerySlow(speed) == FALSE

\* speedtest.js line 199
VerySlow(speed) == speed < 5

\* speedtest.js lines 194-206: the small probe settles.
ProbeSmall(outcome) ==
    /\ pc = "probe_small"
    /\ LET results == IF outcome > 0 THEN Append(probe.results, outcome)
                      ELSE probe.results
           locals == [results |-> results, i |-> 0,
                      outcomes |-> Append(probe.outcomes, outcome)]
       IN IF outcome # FAIL /\ VerySlow(outcome)
          THEN ProbeReturns(outcome, connectionType, locals)
          ELSE /\ probe' = locals
               /\ pc' = "probe_main"
               /\ UNCHANGED <<connectionType, probeSpeed, paramVars, returned>>
    /\ UNCHANGED <<otherVars, call, rejected, isLocal, runs, isRunning, testStatus,
                   testResult, now, ping, requestVars, measureVars, statusLog>>

\* speedtest.js lines 209-262: main probe i settles; after the last one the
\* median is classified and returned.
ProbeMain(outcome) ==
    /\ pc = "probe_main"
    /\ LET results == IF outcome > 0 THEN Append(probe.results, outcome)
                      ELSE probe.results
           locals == [results |-> results, i |-> probe.i,
                      outcomes |-> Append(probe.outcomes, outcome)]
           finalSpeed == ProbeFinalSpeed(results)
       IN IF probe.i < PROBE_COUNT - 1
          THEN /\ probe' = locals
               /\ pc' = "probe_delay"
               /\ UNCHANGED <<connectionType, probeSpeed, paramVars, returned>>
          ELSE ProbeReturns(finalSpeed, ClassifyTier(finalSpeed),
                            [locals EXCEPT !.results = SortNums(results)])
    /\ UNCHANGED <<otherVars, call, rejected, isLocal, runs, isRunning, testStatus,
                   testResult, now, ping, requestVars, measureVars, statusLog>>

\* speedtest.js lines 222-224: the 300 ms delay between probes ends.
ProbeDelay ==
    /\ pc = "probe_delay"
    /\ probe' = [probe EXCEPT !.i = probe.i + 1]
    /\ pc' = "probe_main"
    /\ UNCHANGED <<otherVars, call, rejected, isLocal, runs, isRunning, testStatus, testResult,
                   connectionType, paramVars, now, probeSpeed, ping,
                   requestVars, measureVars, statusLog, returned>>

(***************************************************************************)
(* measureLatency.                                                         *)
(***************************************************************************)
\* speedtest.js lines 100-104, 345-360: the 500 ms pause ends; status IDLE;
\* measureLatency sends the first warm-up ping.
Pause1Done ==
    /\ pc = "pause1"
    /\ UpdateStatus(TestStatus.IDLE)
    /\ ping' = NoPing
    /\ probeSpeed' = NULL
    /\ probe' = NoProbe
    /\ progressInterval' = TRUE
    /\ pc' = "lat_warmup"
    /\ UNCHANGED <<componentVars, call, rejected, isLocal, runs, isRunning, testResult, connectionType,
                   paramVars, now, requestVars, measureVars, returned>>

\* speedtest.js line 357
WarmupCount(ct) == IF ct = "slow" THEN 2 ELSE 3

\* speedtest.js lines 358-373: warm-up ping i settles (and, if it succeeded,
\* its 50 ms delay ends); the next warm-up ping or the first timed ping is
\* sent.
LatWarmup(ok) ==
    /\ pc = "lat_warmup"
    /\ IF ping.i + 1 < WarmupCount(connectionType)
       THEN /\ ping' = [ping EXCEPT !.i = ping.i + 1]
            /\ pc' = "lat_warmup"
       ELSE /\ ping' = [ping EXCEPT !.i = 0]
            /\ pc' = "lat_ping"
    /\ UNCHANGED <<otherVars, call, rejected, isLocal, runs, isRunning, testStatus, testResult,
                   connectionType, paramVars, now, probe, probeSpeed,
                   requestVars, measureVars, statusLog, returned>>

\* speedtest.js lines 370-415, 104-109: timed ping i settles with a
\* round-trip time, a non-2xx status (NOTOK) or a rejection (FAIL); then the
\* next ping is sent, or the result is reduced and returned to startTest,
\* which stores it and pauses 500 ms.  The locals of measureLatency are
\* kept as it left them until startTest goes on to the download phase.
LatPing(outcome) ==
    /\ pc = "lat_ping"
    /\ LET ok == outcome \notin {FAIL, NOTOK}
           results == IF ok THEN Append(ping.results, outcome) ELSE ping.results
           jitter == IF ok /\ ping.last # NULL
                     THEN Append(ping.jitter,
                                 IF outcome >= ping.last THEN outcome - ping.last
                                 ELSE ping.last - outcome)
                     ELSE ping.jitter
           last == IF ok THEN outcome ELSE ping.last
           res == LatencyResult(results, jitter, connectionType, isLocal)
       IN /\ ping' = [i |-> ping.i + 1, results |-> results,
                      jitter |-> jitter, last |-> last]
          /\ IF ping.i + 1 < PING_TESTS
             THEN /\ pc' = "lat_ping"
                  /\ UNCHANGED <<testResult, returned, progressInterval>>
             ELSE /\ testResult' = [testResult EXCEPT
                                       !.latency = res.latency,
                                       !.jitter = res.jitter]
                  /\ returned' = returned \cup {"latency"}
                  /\ progressInterval' = FALSE
                  /\ pc' = "pause2"
    /\ UNCHANGED <<componentVars, call, rejected, isLocal, runs, isRunning, testStatus,
                   connectionType, paramVars, now, probe, probeSpeed,
                   requestVars, measureVars, statusLog>>

(***************************************************************************)
(* Throughput phases: promises, timers and the clock.                      *)
(***************************************************************************)
\* Promise.all over the stream promises: rejected as soon as one of them is
\* rejected, resolved once all are resolved.
AllOf(ps) ==
    IF \E s \in DOMAIN ps : ps[s] = "rejected" THEN "rejected"
    ELSE IF \A s \in DOMAIN ps : ps[s] = "resolved" THEN "resolved"
    ELSE "pending"

\* The promise p of ps settled as outcome; a settled promise stays as it is,
\* and promise 0 is the promise of a replacement stream, which nobody awaits
\* (speedtest.js line 632).
Settled(ps, p, outcome) ==
    [s \in DOMAIN ps |-> IF s = p /\ ps[s] = "pending" THEN outcome ELSE ps[s]]

\* The continuation of the await on Promise.race is a microtask: it runs
\* before any other event handler or timer.
MicrotaskPending ==
    /\ pc \in {"dl_await", "ul_await"}
    /\ phase.race \in {"resolved", "rejected"}

\* The reading the clock shows t ms after it showed 0.
FloorReading(t) ==
    CHOOSE r \in ClockReadings :
        /\ r <= t
        /\ \A q \in ClockReadings : q <= t => q <= r

\* The reading that follows reading t.
NextReading(t) ==
    CHOOSE r \in ClockReadings :
        /\ r > t
        /\ \A q \in ClockReadings : q > t => r <= q

\* A timer set at clock reading setAt with the given delay has expired.
TimerDue(setAt, delayMs) == now >= setAt + FloorReading(delayMs)

\* The state of the race when a handler has left the stream promises as ps.
RaceAfter(ps) ==
    IF pc \in {"dl_await", "ul_await"} /\ phase.race = "pending"
    THEN AllOf(ps) ELSE phase.race

\* The network delivers an event to request r.
CanDeliver(r, kind) ==
    /\ r \in DOMAIN xhrs
    /\ xhrs[r].kind = kind
    /\ InFlight(xhrs[r])
    /\ xhrs[r].slot < EventSlots
    /\ netBudget > 0
    /\ ~MicrotaskPending

\* Clock readings are used only in differences: the origin of the clock is
\* moved to the present when a throughput phase starts.
Rebased(xs) == [r \in DOMAIN xs |-> [xs[r] EXCEPT !.startTime = @ - now]]

\* A reset that empties the lists without aborting the requests.
resetListsOnly(xs) == xs

\* speedtest.js lines 970-980: the requests after resetActiveRequests.
resetActiveRequests(xs) ==
    AbortedAll(AbortedAll(xs, activeDownloadRequests), activeUploadRequests)

\* A test that sends every local host to the simulation.
SimulatedWhenLocal == isLocal

\* speedtest.js lines 497-500, 672-675
Simulated == isLocal /\ connectionType \in {"very-fast", "ultra-fast"}

(***************************************************************************)
(* Exceptions.  A try statement is the pair of its first line and the line *)
(* of its catch clause; an exception thrown inside it (a rejected promise  *)
(* at an await is thrown at the line of the await) runs the catch clause,  *)
(* any other exception rejects the promise of the async function.          *)
(***************************************************************************)
Caught(line, try) == try[1] <= line /\ line < try[2]

\* speedtest.js lines 518-552: the try statement of measureDownloadSpeed.
DownloadTry == <<518, 552>>

\* speedtest.js lines 693-750: the try statement of measureUploadSpeed.
UploadTry == <<693, 750>>

\* speedtest.js lines 125-132, 136-164: the promise of the measurement
\* function fn has rejected, leaving the requests xs; startTest alerts the
\* user and, in its finally block, resets.
RunFails(fn, xs) ==
    /\ rejected' = rejected \cup {fn}
    /\ isRunning' = FALSE
    /\ speedSamples' = <<>>
    /\ downloadRequestCount' = 0
    /\ uploadRequestCount' = 0
    /\ xhrs' = Live(resetActiveRequests(xs))
    /\ activeDownloadRequests' = <<>>
    /\ activeUploadRequests' = <<>>
    /\ progressInterval' = FALSE
    /\ pc' = "idle"
    /\ UNCHANGED <<testStatus, testResult, statusLog, returned, netBudget,
                   probeSpeed>>

(***************************************************************************)
(* measureDownloadSpeed.                                                   *)
(***************************************************************************)
\* speedtest.js lines 569-578, 659-660: a download request for a slot.
NewDownloadXhr(slot, promise, t) ==
    [kind |-> "dl", slot |-> slot, promise |-> promise, state |-> "inflight",
     warm |-> FALSE, startTime |-> t]

\* A warm-up test that every elapsed time passes.
NoWarmup(elapsedMs) == elapsedMs >= 0

\* speedtest.js lines 586-589
PastWarmup(elapsedMs) == elapsedMs > WARMUP_DURATION * 1000

\* A replacement test that every elapsed time passes.
ReplacementAlways(elapsedMs) == elapsedMs >= 0

\* speedtest.js lines 627-628
ReplacementDue(elapsedMs) == elapsedMs < TARGET_DL_DURATION * 1000

\* A filter that lets every computed speed through.
Unfiltered(speed) == speed.d > 0

\* speedtest.js lines 609, 815
Reasonable(speed) == speed.n > 0 /\ speed.n < SPEED_LIMIT * speed.d

\* A startTest that does not await measureDownloadSpeed.
Pause2NoAwait ==
    /\ pc = "pause2"
    /\ UpdateStatus(TestStatus.DOWNLOAD)
    /\ pc' = "pause3"
    /\ ping' = NoPing
    /\ UNCHANGED <<otherVars, call, rejected, isLocal, runs, isRunning, testResult,
                   connectionType, paramVars, requestVars, measureVars, now,
                   probe, probeSpeed, returned>>

\* speedtest.js lines 109-113, 491-528: the 500 ms pause ends; status
\* DOWNLOAD; measureDownloadSpeed starts the simulation or stream 0.
Pause2Done ==
    /\ pc = "pause2"
    /\ UpdateStatus(TestStatus.DOWNLOAD)
    /\ now' = 0
    /\ speedSamples' = <<>>
    /\ ping' = NoPing
    /\ progressInterval' = TRUE
    /\ IF Simulated
       THEN /\ phase' = [NoPhase EXCEPT !.kind = "sim"]
            /\ pc' = "dl_sim"
            /\ testStartTime' = testStartTime - now
            /\ xhrs' = Rebased(xhrs)
            /\ UNCHANGED <<downloadRequestCount, activeDownloadRequests>>
       ELSE /\ testStartTime' = 0
            /\ xhrs' = Append(Rebased(xhrs), NewDownloadXhr(0, 1, 0))
            /\ activeDownloadRequests' =
                   Append(activeDownloadRequests, Len(xhrs) + 1)
            /\ downloadRequestCount' = downloadRequestCount + 1
            /\ phase' = [NoPhase EXCEPT
                           !.kind = "dl", !.launched = 1,
                           !.promises = <<"pending">>,
                           !.race = IF downloadConcurrency > 1 THEN "none"
                                    ELSE "pending"]
            /\ pc' = IF downloadConcurrency > 1 THEN "dl_launch" ELSE "dl_await"
    /\ UNCHANGED <<componentVars, call, rejected, isLocal, runs, isRunning, testResult, connectionType,
                   paramVars, probe, probeSpeed, uploadRequestCount,
                   activeUploadRequests, netBudget, returned>>

\* speedtest.js lines 521-536: the 200 ms stagger ends; the next stream is
\* started; after the last one the race with the grace timer is awaited.
DlStagger ==
    /\ pc = "dl_launch"
    /\ TimerDue(phase.timerSetAt, STAGGER_MS)
    /\ LET ps == Append(phase.promises, "pending")
           last == phase.launched + 1 >= downloadConcurrency
       IN /\ xhrs' = Append(xhrs, NewDownloadXhr(phase.launched,
                                                 phase.launched + 1, now))
          /\ activeDownloadRequests' =
                 Append(activeDownloadRequests, Len(xhrs) + 1)
          /\ downloadRequestCount' = downloadRequestCount + 1
          /\ phase' = [phase EXCEPT
                         !.launched = phase.launched + 1,
                         !.promises = ps,
                         !.timerSetAt = now,
                         !.race = IF last THEN AllOf(ps) ELSE "none"]
          /\ pc' = IF last THEN "dl_await" ELSE "dl_launch"
    /\ UNCHANGED <<otherVars, call, rejected, isLocal, runs, isRunning, testStatus, testResult,
                   connectionType, paramVars, testStartTime, speedSamples, now,
                   probe, probeSpeed, ping, uploadRequestCount,
                   activeUploadRequests, netBudget, statusLog, returned>>

\* speedtest.js lines 580-620: onprogress of download request r, with mbit
\* megabits received since its previous progress event.
DlProgressEvent(r, mbit) ==
    /\ CanDeliver(r, "dl")
    /\ LET x == xhrs[r]
           exits == ~x.warm /\ PastWarmup(now - testStartTime)
           warm == x.warm \/ exits
           startTime == IF exits THEN now ELSE x.startTime
           samples == IF exits THEN <<>> ELSE speedSamples
           elapsedMs == now - startTime
           instantSpeed == Rat(mbit * 1000, elapsedMs)
       IN /\ xhrs' = [xhrs EXCEPT ![r].warm = warm,
                                  ![r].startTime = startTime]
          /\ speedSamples' =
                 IF warm /\ elapsedMs > 0 /\ Reasonable(instantSpeed)
                 THEN Append(samples, [time |-> now, speed |-> instantSpeed,
                                       by |-> "download"])
                 ELSE samples
    /\ netBudget' = netBudget - 1
    /\ UNCHANGED phase
    /\ UNCHANGED <<fill, server, run, progressInterval, call, rejected, isLocal, pc, runs, isRunning, testStatus, testResult,
                   connectionType, paramVars, downloadRequestCount,
                   uploadRequestCount, activeDownloadRequests,
                   activeUploadRequests, testStartTime, now, probe, probeSpeed,
                   ping, statusLog, returned>>

DlProgress(r, mbit) == DlProgressEvent(r, mbit) /\ UNCHANGED events

\* What a settled download request does to the promises of the phase.
DlSettle(x, outcome) ==
    IF phase.kind = "dl" THEN Settled(phase.promises, x.promise, outcome)
    ELSE phase.promises

\* speedtest.js lines 622-642: onload of download request r.
DlLoad(r, status) ==
    /\ CanDeliver(r, "dl")
    /\ LET x == xhrs[r]
           ok == status >= 200 /\ status < 300
           replace == ok /\ ReplacementDue(now - testStartTime)
           xs == [xhrs EXCEPT ![r].state = IF ok THEN "loaded" ELSE "failed"]
           ps == DlSettle(x, IF ok THEN "resolved" ELSE "rejected")
       IN /\ xhrs' = IF replace
                     THEN Append(xs, NewDownloadXhr(x.slot, 0, now))
                     ELSE xs
          /\ activeDownloadRequests' =
                 IF replace THEN Append(activeDownloadRequests, Len(xhrs) + 1)
                 ELSE activeDownloadRequests
          /\ downloadRequestCount' =
                 IF replace THEN downloadRequestCount + 1
                 ELSE downloadRequestCount
          /\ netBudget' = netBudget - 1
          /\ phase' = [phase EXCEPT !.promises = ps,
                                    !.race = RaceAfter(ps)]
    /\ UNCHANGED <<otherVars, call, rejected, isLocal, pc, runs, isRunning, testStatus, testResult,
                   connectionType, paramVars, uploadRequestCount,
                   activeUploadRequests, testStartTime, speedSamples, now,
                   probe, probeSpeed, ping, statusLog, returned>>

\* The effect of onerror and ontimeout of download request r: reject.
DlReject(r) ==
    /\ CanDeliver(r, "dl")
    /\ LET ps == DlSettle(xhrs[r], "rejected")
       IN /\ xhrs' = [xhrs EXCEPT ![r].state = "failed"]
          /\ netBudget' = netBudget - 1
          /\ phase' = [phase EXCEPT !.promises = ps,
                                    !.race = RaceAfter(ps)]
    /\ UNCHANGED <<otherVars, call, rejected, isLocal, pc, runs, isRunning, testStatus, testResult,
                   connectionType, paramVars, downloadRequestCount,
                   uploadRequestCount, activeDownloadRequests,
                   activeUploadRequests, testStartTime, speedSamples, now,
                   probe, probeSpeed, ping, statusLog, returned>>

\* speedtest.js lines 644-647
DlError(r) == DlReject(r)

\* speedtest.js lines 654-657
DlTimeout(r) == DlReject(r)

\* A race that only the stream promises settle.
RaceWithoutTimer == FALSE /\ UNCHANGED vars

\* speedtest.js lines 533-535: the grace timer of the race fires.
DlGrace ==
    /\ pc = "dl_await"
    /\ phase.race = "pending"
    /\ TimerDue(phase.timerSetAt, TARGET_DL_DURATION * 1000 + GRACE_MS)
    /\ phase' = [phase EXCEPT !.race = "resolved"]
    /\ UNCHANGED <<otherVars, call, rejected, isLocal, pc, runs, isRunning, testStatus, testResult,
                   connectionType, paramVars, requestVars, testStartTime,
                   speedSamples, now, probe, probeSpeed, ping, statusLog,
                   returned>>

\* speedtest.js lines 538-557, 113-116: the race has settled.  Resolved: the
\* remaining streams are aborted and the samples reduced (sorted in place);
\* rejected: the catch branch returns the fallback.  Both reset the active
\* requests; startTest stores the result and pauses 500 ms.
DlConclude ==
    /\ pc = "dl_await"
    /\ phase.race \in {"resolved", "rejected"}
    /\ phase' = [phase EXCEPT
                   !.promises = PromisesAfterAbort(phase.promises, xhrs,
                                                   activeDownloadRequests)]
    /\ IF phase.race = "rejected" /\ ~Caught(531, DownloadTry)
       THEN RunFails("download", xhrs)
       ELSE LET aborted == AbortedAll(xhrs, activeDownloadRequests)
                xs == IF phase.race = "resolved"
                      THEN resetActiveRequests(aborted)
                      ELSE resetActiveRequests(xhrs)
                finalSpeed ==
                    IF phase.race = "resolved"
                    THEN calculateFinalSpeed(speedSamples, connectionType,
                                             "download")
                    ELSE Rat(calculateFallbackSpeed(connectionType,
                                                    "download"), 1)
            IN /\ speedSamples' = IF phase.race = "resolved"
                                  THEN SortSamples(speedSamples)
                                  ELSE speedSamples
               /\ xhrs' = Live(xs)
               /\ testResult' = [testResult EXCEPT !.downloadSpeed = finalSpeed]
               /\ activeDownloadRequests' = <<>>
               /\ activeUploadRequests' = <<>>
               /\ returned' = returned \cup {"download"}
               /\ progressInterval' = FALSE
               /\ pc' = "pause3"
               /\ UNCHANGED <<rejected, isRunning, testStatus,
                              downloadRequestCount, uploadRequestCount,
                              netBudget, probeSpeed, statusLog>>
    /\ UNCHANGED <<componentVars, call, isLocal, runs, connectionType, paramVars,
                   testStartTime, now, probe, ping>>

(***************************************************************************)
(* The end of the run.                                                     *)
(***************************************************************************)
\* speedtest.js lines 120-133, 136-164: measureUploadSpeed has returned
\* result and left the requests xs; startTest stores it, sets the status
\* COMPLETE, shows the results and, in its finally block, resets.
RunEnds(result, xs) ==
    /\ testResult' = [testResult EXCEPT !.uploadSpeed = result]
    /\ UpdateStatus(TestStatus.COMPLETE)
    /\ returned' = returned \cup {"upload"}
    /\ isRunning' = FALSE
    /\ speedSamples' = <<>>
    /\ downloadRequestCount' = 0
    /\ uploadRequestCount' = 0
    /\ xhrs' = Live(resetActiveRequests(xs))
    /\ activeDownloadRequests' = <<>>
    /\ activeUploadRequests' = <<>>
    /\ progressInterval' = FALSE
    /\ pc' = "idle"
    /\ UNCHANGED <<netBudget, probeSpeed, rejected>>

(***************************************************************************)
(* measureUploadSpeed.                                                     *)
(***************************************************************************)
\* speedtest.js lines 792-796, 865-868: an upload request of a stream.
NewUploadXhr(slot, t) ==
    [kind |-> "ul", slot |-> slot, promise |-> slot + 1, state |-> "inflight",
     warm |-> FALSE, startTime |-> t]

\* speedtest.js line 701
ChunksNeeded == Max(12, uploadConcurrency * 3)

\* speedtest.js line 771
UploadContinues(elapsedMs) == ~(elapsedMs >= TARGET_UL_DURATION * 1000)

\* speedtest.js lines 762-764: the closure variables of upload stream s.
NewUploadStream(s) ==
    [warm |-> FALSE, startTime |-> now, chunkIndex |-> s % ChunksNeeded]

\* speedtest.js lines 766-869: uploadNextChunk of stream s, from the streams,
\* promises, requests and active list given; count is uploadRequestCount.
uploadNextChunk(s, streams, ps, xs, active) ==
    LET elapsed == now - testStartTime
        st == streams[s + 1]
        exits == ~st.warm /\ PastWarmup(elapsed)
    IN IF ~UploadContinues(elapsed)
       THEN [streams |-> streams, promises |-> Settled(ps, s + 1, "resolved"),
             xhrs |-> xs, active |-> active, count |-> uploadRequestCount]
       ELSE [streams |-> [streams EXCEPT ![s + 1] =
                            [warm |-> st.warm \/ exits,
                             startTime |-> IF exits THEN now ELSE st.startTime,
                             chunkIndex |-> (st.chunkIndex + 1) % ChunksNeeded]],
             promises |-> ps,
             xhrs |-> Append(xs, NewUploadXhr(s, now)),
             active |-> Append(active, Len(xs) + 1),
             count |-> uploadRequestCount + 1]

\* A startTest that restores the initial parameters (speedtest.js lines
\* 13-16) before the upload phase.
Pause3Restores ==
    /\ pc = "pause3"
    /\ downloadFileSize' = 25 * MiB
    /\ uploadChunkSize' = 1 * MiB
    /\ uploadConcurrency' = 1
    /\ downloadConcurrency' = 1
    /\ UNCHANGED <<otherVars, call, isLocal, pc, runs, isRunning, testStatus,
                   testResult, connectionType, requestVars, measureVars, now,
                   probe, probeSpeed, ping, xhrs, netBudget, statusLog,
                   returned, rejected>>

\* speedtest.js lines 116-120, 666-691: the 500 ms pause ends; status UPLOAD;
\* measureUploadSpeed starts the simulation or the generation of the chunks.
Pause3Done ==
    /\ pc = "pause3"
    /\ UpdateStatus(TestStatus.UPLOAD)
    /\ now' = 0
    /\ speedSamples' = <<>>
    /\ xhrs' = Rebased(xhrs)
    /\ progressInterval' = TRUE
    /\ IF Simulated
       THEN /\ phase' = [NoPhase EXCEPT !.kind = "sim"]
            /\ pc' = "ul_sim"
            /\ testStartTime' = testStartTime - now
       ELSE /\ phase' = [NoPhase EXCEPT !.kind = "ul"]
            /\ pc' = "ul_gen"
            /\ testStartTime' = 0
    /\ UNCHANGED <<componentVars, call, rejected, isLocal, runs, isRunning, testResult, connectionType,
                   paramVars, probe, probeSpeed, ping, downloadRequestCount,
                   uploadRequestCount, activeDownloadRequests,
                   activeUploadRequests, netBudget, returned>>

\* The state left by a handler that called uploadNextChunk with outcome u.
UploadStep(u, launched, race, timerSetAt) ==
    /\ xhrs' = u.xhrs
    /\ activeUploadRequests' = u.active
    /\ uploadRequestCount' = u.count
    /\ phase' = [phase EXCEPT !.streams = u.streams, !.promises = u.promises,
                              !.launched = launched, !.race = race,
                              !.timerSetAt = timerSetAt]

\* speedtest.js lines 693-726, 750-755: the chunks have been generated and
\* stream 0 is started, or generateRandomData has thrown and the catch
\* branch returns the fallback.
UlGenerate(ok) ==
    /\ pc = "ul_gen"
    /\ IF ok
       THEN /\ LET u == uploadNextChunk(0, <<NewUploadStream(0)>>, <<"pending">>,
                                        xhrs, activeUploadRequests)
               IN UploadStep(u, 1,
                             IF uploadConcurrency > 1 THEN "none"
                             ELSE AllOf(u.promises),
                             now)
            /\ pc' = IF uploadConcurrency > 1 THEN "ul_launch" ELSE "ul_await"
            /\ UNCHANGED <<isRunning, testStatus, testResult, speedSamples,
                           downloadRequestCount, activeDownloadRequests,
                           probeSpeed, netBudget, statusLog, returned,
                           rejected, progressInterval>>
       ELSE /\ IF Caught(705, UploadTry)
               THEN RunEnds(Rat(calculateFallbackSpeed(connectionType,
                                                       "upload"), 1), xhrs)
               ELSE RunFails("upload", xhrs)
            /\ UNCHANGED phase
    /\ UNCHANGED <<componentVars, call, isLocal, runs, connectionType, paramVars,
                   testStartTime, now, probe, ping>>

\* speedtest.js lines 719-734: the 200 ms stagger ends; the next stream is
\* started; after the last one the race with the grace timer is awaited.
UlStagger ==
    /\ pc = "ul_launch"
    /\ TimerDue(phase.timerSetAt, STAGGER_MS)
    /\ LET s == phase.launched
           last == s + 1 >= uploadConcurrency
           u == uploadNextChunk(s, Append(phase.streams, NewUploadStream(s)),
                                Append(phase.promises, "pending"),
                                xhrs, activeUploadRequests)
       IN /\ UploadStep(u, s + 1, IF last THEN AllOf(u.promises) ELSE "none",
                        now)
          /\ pc' = IF last THEN "ul_await" ELSE "ul_launch"
    /\ UNCHANGED <<otherVars, call, rejected, isLocal, runs, isRunning, testStatus, testResult,
                   connectionType, paramVars, downloadRequestCount,
                   activeDownloadRequests, testStartTime, speedSamples, now,
                   probe, probeSpeed, ping, netBudget, statusLog, returned>>

\* speedtest.js lines 798-829: upload.onprogress of upload request r, with
\* mbit megabits sent since its previous progress event.
UlProgressEvent(r, mbit) ==
    /\ CanDeliver(r, "ul")
    /\ LET x == xhrs[r]
           warm == phase.streams[x.slot + 1].warm
           elapsedMs == now - x.startTime
           instantSpeed == Rat(mbit * 1000, elapsedMs)
       IN /\ xhrs' = [xhrs EXCEPT
                        ![r].startTime = IF warm THEN now ELSE x.startTime]
          /\ speedSamples' =
                 IF warm /\ elapsedMs > 0 /\ Reasonable(instantSpeed)
                 THEN Append(speedSamples,
                             [time |-> now, speed |-> instantSpeed,
                              by |-> "upload"])
                 ELSE speedSamples
    /\ netBudget' = netBudget - 1
    /\ UNCHANGED phase
    /\ UNCHANGED <<fill, server, run, progressInterval, call, rejected, isLocal, pc, runs, isRunning, testStatus, testResult,
                   connectionType, paramVars, downloadRequestCount,
                   uploadRequestCount, activeDownloadRequests,
                   activeUploadRequests, testStartTime, now, probe, probeSpeed,
                   ping, statusLog, returned>>

UlProgress(r, mbit) == UlProgressEvent(r, mbit) /\ UNCHANGED events

\* The active upload requests without request r (speedtest.js lines 833-834).
Without(active, r) == SelectSeq(active, LAMBDA id : id # r)

\* A settled upload request r, in the state given, goes on to the next chunk.
UlNext(r, state, active) ==
    /\ CanDeliver(r, "ul")
    /\ LET x == xhrs[r]
           u == uploadNextChunk(x.slot, phase.streams, phase.promises,
                                [xhrs EXCEPT ![r].state = state], active)
       IN UploadStep(u, phase.launched, RaceAfter(u.promises),
                     phase.timerSetAt)
    /\ netBudget' = netBudget - 1
    /\ UNCHANGED <<otherVars, call, rejected, isLocal, pc, runs, isRunning, testStatus, testResult,
                   connectionType, paramVars, downloadRequestCount,
                   activeDownloadRequests, testStartTime, speedSamples, now,
                   probe, probeSpeed, ping, statusLog, returned>>

\* speedtest.js lines 831-846: onload of upload request r; a non-2xx status
\* continues with the next chunk as well.
UlLoad(r, status) ==
    UlNext(r, IF status >= 200 /\ status < 300 THEN "loaded" ELSE "failed",
           Without(activeUploadRequests, r))

\* An onerror handler that goes on to the next chunk while its request is
\* still in flight.
UlErrorInFlight(r) == UlNext(r, "inflight", activeUploadRequests)

\* speedtest.js lines 848-852
UlError(r) == UlNext(r, "failed", activeUploadRequests)

\* speedtest.js lines 859-863
UlTimeout(r) == UlNext(r, "failed", activeUploadRequests)

\* speedtest.js lines 731-733: the grace timer of the race fires.
UlGrace ==
    /\ pc = "ul_await"
    /\ phase.race = "pending"
    /\ TimerDue(phase.timerSetAt, TARGET_UL_DURATION * 1000 + GRACE_MS)
    /\ phase' = [phase EXCEPT !.race = "resolved"]
    /\ UNCHANGED <<otherVars, call, rejected, isLocal, pc, runs, isRunning, testStatus, testResult,
                   connectionType, paramVars, requestVars, testStartTime,
                   speedSamples, now, probe, probeSpeed, ping, statusLog,
                   returned>>

\* speedtest.js lines 736-755, 120-133: the race has settled; the remaining
\* requests are aborted, the samples reduced and the run ends.
UlConclude ==
    /\ pc = "ul_await"
    /\ phase.race \in {"resolved", "rejected"}
    /\ LET aborted == AbortedAll(xhrs, activeUploadRequests)
           finalSpeed ==
               IF phase.race = "resolved"
               THEN calculateFinalSpeed(speedSamples, connectionType, "upload")
               ELSE Rat(calculateFallbackSpeed(connectionType, "upload"), 1)
       IN IF phase.race = "rejected" /\ ~Caught(729, UploadTry)
          THEN RunFails("upload", xhrs)
          ELSE RunEnds(finalSpeed,
                       IF phase.race = "resolved" THEN aborted ELSE xhrs)
    /\ phase' = [phase EXCEPT
                   !.promises = PromisesAfterAbort(phase.promises, xhrs,
                                                   activeUploadRequests)]
    /\ UNCHANGED <<componentVars, call, isLocal, runs, connectionType, paramVars,
                   testStartTime, now, probe, ping>>

(***************************************************************************)
(* simulateSpeedTest.                                                      *)
(***************************************************************************)
\* speedtest.js lines 501, 676, 892: actualBaseSpeed, in Mbps.
SimBaseSpeed(ct, type) ==
    IF type = "download"
    THEN (IF ct = "ultra-fast" THEN 2500 ELSE 750)
    ELSE ((IF ct = "ultra-fast" THEN 2000 ELSE 600) * 85) \div 100

\* speedtest.js line 919
IsWarmupPhase(elapsedMs) == elapsedMs < WARMUP_DURATION * 1000

\* speedtest.js lines 903-957: one callback of the 150 ms interval, drawing
\* the speed factor f (percent).  At most one callback runs per reading of
\* the clock.
SimInterval(f) ==
    /\ pc \in {"dl_sim", "ul_sim"}
    /\ ~phase.simFired
    /\ LET type == IF pc = "dl_sim" THEN "download" ELSE "upload"
           testDuration == IF type = "download" THEN TARGET_DL_DURATION
                           ELSE TARGET_UL_DURATION
           elapsed == now - phase.timerSetAt
           currentSpeed == Rat(SimBaseSpeed(connectionType, type) * f, 100)
           finalSpeed == calculateFinalSpeed(speedSamples, connectionType, type)
       IN IF elapsed >= testDuration * 1000
          THEN /\ phase' = [phase EXCEPT !.simFired = TRUE]
               /\ IF type = "download"
                  THEN /\ testResult' = [testResult EXCEPT
                                           !.downloadSpeed = finalSpeed]
                       /\ speedSamples' = SortSamples(speedSamples)
                       /\ returned' = returned \cup {"download"}
                       /\ progressInterval' = FALSE
                       /\ pc' = "pause3"
                       /\ UNCHANGED <<isRunning, testStatus, statusLog,
                                      probeSpeed, requestVars>>
                  ELSE RunEnds(finalSpeed, xhrs)
          ELSE /\ phase' = [phase EXCEPT !.simFired = TRUE]
               /\ speedSamples' =
                      IF ~IsWarmupPhase(elapsed)
                      THEN Append(speedSamples,
                                  [time |-> now, speed |-> currentSpeed,
                                   by |-> type])
                      ELSE speedSamples
               /\ UNCHANGED <<pc, isRunning, testStatus, testResult, statusLog,
                              probeSpeed, requestVars, returned,
                              progressInterval>>
    /\ UNCHANGED <<componentVars, call, rejected, isLocal, runs, connectionType, paramVars, testStartTime, now,
                   probe, ping>>

(***************************************************************************)
(* The clock.                                                              *)
(***************************************************************************)
\* Time passes while a throughput phase waits; a timer that is due fires
\* before the clock shows the next reading.
Tick ==
    /\ ~MicrotaskPending
    /\ \/ /\ pc = "dl_await"
          /\ ~TimerDue(phase.timerSetAt, TARGET_DL_DURATION * 1000 + GRACE_MS)
       \/ /\ pc = "ul_await"
          /\ ~TimerDue(phase.timerSetAt, TARGET_UL_DURATION * 1000 + GRACE_MS)
       \/ /\ pc \in {"dl_sim", "ul_sim"}
          /\ phase.simFired
    /\ \E r \in ClockReadings : r > now
    /\ now' = NextReading(now)
    /\ phase' = [phase EXCEPT !.simFired = FALSE]
    /\ UNCHANGED <<otherVars, call, rejected, isLocal, pc, runs, isRunning, testStatus, testResult,
                   connectionType, paramVars, requestVars, testStartTime,
                   speedSamples, probe, probeSpeed, ping, statusLog, returned>>

(***************************************************************************)
(* The adaptive engine.                                                    *)
(***************************************************************************)
ProbeOutcomes == ProbeSpeeds \cup {FAIL}
PingOutcomes == PingValues \cup {FAIL, NOTOK}
Statuses == {200, 500}

Next ==
    \/ StartTest
    \/ \E o \in ProbeOutcomes : ProbeSmall(o)
    \/ \E o \in ProbeOutcomes : ProbeMain(o)
    \/ ProbeDelay
    \/ Pause1Done
    \/ \E ok \in BOOLEAN : LatWarmup(ok)
    \/ \E o \in PingOutcomes : LatPing(o)
    \/ Pause2Done
    \/ DlStagger
    \/ \E r \in DOMAIN xhrs, m \in ProgressMbit : DlProgress(r, m)
    \/ \E r \in DOMAIN xhrs, st \in Statuses : DlLoad(r, st)
    \/ \E r \in DOMAIN xhrs : DlError(r)
    \/ \E r \in DOMAIN xhrs : DlTimeout(r)
    \/ DlGrace
    \/ DlConclude
    \/ Pause3Done
    \/ \E ok \in BOOLEAN : UlGenerate(ok)
    \/ UlStagger
    \/ \E r \in DOMAIN xhrs, m \in ProgressMbit : UlProgress(r, m)
    \/ \E r \in DOMAIN xhrs, st \in Statuses : UlLoad(r, st)
    \/ \E r \in DOMAIN xhrs : UlError(r)
    \/ \E r \in DOMAIN xhrs : UlTimeout(r)
    \/ UlGrace
    \/ UlConclude
    \/ \E f \in SimFactors : SimInterval(f)
    \/ Tick

Spec == Init /\ [][Next]_vars

(***************************************************************************)
(* A run followed from the start of a throughput phase: the state when the *)
(* pause before the download phase (pause2) or before the upload phase     *)
(* (pause3) is about to end, for the tiers and hosts of PhaseScenarios.    *)
(***************************************************************************)
PhaseScenarios ==
    {[ct |-> "slow", local |-> FALSE],
     [ct |-> "moderate", local |-> FALSE],
     [ct |-> "very-fast", local |-> TRUE]}

InitPhase ==
    \E sc \in PhaseScenarios, at \in {"pause2", "pause3"} :
        /\ isLocal = sc.local
        /\ pc = at
        /\ runs = 1
        /\ isRunning = TRUE
        /\ testStatus = IF at = "pause2" THEN TestStatus.IDLE
                        ELSE TestStatus.DOWNLOAD
        /\ testResult =
               [downloadSpeed |->
                    IF at = "pause2" THEN Rat(0, 1)
                    ELSE Rat(calculateFallbackSpeed(sc.ct, "download"), 1),
                uploadSpeed |-> Rat(0, 1), latency |-> 20000, jitter |-> 0]
        /\ connectionType = sc.ct
        /\ downloadFileSize = AdjustedParameters(sc.ct).downloadFileSize
        /\ uploadChunkSize = AdjustedParameters(sc.ct).uploadChunkSize
        /\ uploadConcurrency = AdjustedParameters(sc.ct).uploadConcurrency
        /\ downloadConcurrency = AdjustedParameters(sc.ct).downloadConcurrency
        /\ downloadRequestCount = 0
        /\ uploadRequestCount = 0
        /\ activeDownloadRequests = <<>>
        /\ activeUploadRequests = <<>>
        /\ testStartTime = 0
        /\ speedSamples = <<>>
        /\ now = 0
        /\ probe = NoProbe
        /\ probeSpeed = NULL
        /\ ping = NoPing
        /\ xhrs = <<>>
        /\ phase = NoPhase
        /\ netBudget = PhaseEvents
        /\ statusLog = IF at = "pause2"
                       THEN <<TestStatus.PROBING, TestStatus.IDLE>>
                       ELSE <<TestStatus.PROBING, TestStatus.IDLE,
                              TestStatus.DOWNLOAD>>
        /\ returned = IF at = "pause2" THEN {"probe", "latency"}
                      ELSE {"probe", "latency", "download"}
        /\ rejected = {}
        /\ call = NoCall
        /\ fill = NoFill
        /\ server = NoServer
        /\ events = <<>>
        /\ run = NoRun
        /\ progressInterval = FALSE

NextPhase ==
    \/ Pause2Done
    \/ DlStagger
    \/ \E r \in DOMAIN xhrs, m \in ProgressMbit : DlProgress(r, m)
    \/ \E r \in DOMAIN xhrs, st \in Statuses : DlLoad(r, st)
    \/ \E r \in DOMAIN xhrs : DlError(r)
    \/ \E r \in DOMAIN xhrs : DlTimeout(r)
    \/ DlGrace
    \/ DlConclude
    \/ Pause3Done
    \/ \E ok \in BOOLEAN : UlGenerate(ok)
    \/ UlStagger
    \/ \E r \in DOMAIN xhrs, m \in ProgressMbit : UlProgress(r, m)
    \/ \E r \in DOMAIN xhrs, st \in Statuses : UlLoad(r, st)
    \/ \E r \in DOMAIN xhrs : UlError(r)
    \/ \E r \in DOMAIN xhrs : UlTimeout(r)
    \/ UlGrace
    \/ UlConclude
    \/ \E f \in SimFactors : SimInterval(f)
    \/ Tick

SpecPhase == InitPhase /\ [][NextPhase]_vars

(***************************************************************************)
(* The measurement functions of the other revisions: the earlier static    *)
(* engine (speedtest.js lines 1266-1851) and the Next.js client            *)
(* (src/utils/speedTestUtils.ts).  One call is followed from its           *)
(* invocation to the settling of its promise.                              *)
(***************************************************************************)
\* speedtest.js line 1268
STATIC_UPLOAD_CHUNK_SIZE == 2 * MiB

\* speedtest.js lines 1592-1595: chunkCount
StaticChunkCount == Min(10, (50 * MiB + STATIC_UPLOAD_CHUNK_SIZE - 1)
                               \div STATIC_UPLOAD_CHUNK_SIZE)

\* speedTestUtils.ts line 118: chunkCount
NextChunkCount == (100 * MiB + MiB - 1) \div MiB

\* Megabits in n bytes.
Mbit(n) == (n * 8) \div MiB

\* crypto.getRandomValues throws a QuotaExceededError for more than
\* CRYPTO_BLOCK_SIZE bytes (speedtest.js line 8).
GetRandomValuesThrows(size) == size > CRYPTO_BLOCK_SIZE

RECURSIVE Gcd(_, _)
Gcd(a, b) == IF b = 0 THEN a ELSE Gcd(b, a % b)

Reduced(n, d) ==
    LET g == Gcd(n, d)
    IN IF g = 0 THEN Rat(n, d) ELSE Rat(n \div g, d \div g)

RatAdd(a, b) == Reduced(a.n * b.d + b.n * a.d, a.d * b.d)

RECURSIVE RatSum(_)
RatSum(s) == IF s = <<>> THEN Rat(0, 1) ELSE RatAdd(Head(s), RatSum(Tail(s)))

\* reduce((sum, speed) => sum + speed, 0) / length
RatMean(s) == Reduced(RatSum(s).n, RatSum(s).d * Len(s))

\* Math.max(a, b)
RatMax(a, b) == IF RatLess(a, b) THEN b ELSE a

\* a + Math.random() * b, for the draw rnd (percent).
Random(a, b, rnd) == Rat(a * 100 + rnd * b, 100)

\* Try statements that begin after the first request of the function.
TryAfterFetch(c) ==
    IF c.engine = "static"
    THEN (IF c.fn = "download" THEN <<1440, 1536>> ELSE <<1614, 1694>>)
    ELSE (IF c.fn = "download" THEN <<62, 101>> ELSE <<133, 164>>)

\* speedtest.js lines 1437-1536, 1585-1694; speedTestUtils.ts lines
\* 60-101, 116-164: the try statement of the function called.
TryOf(c) ==
    IF c.engine = "static"
    THEN (IF c.fn = "download" THEN <<1437, 1536>> ELSE <<1585, 1694>>)
    ELSE (IF c.fn = "download" THEN <<60, 101>> ELSE <<116, 164>>)

\* speedtest.js lines 1538, 1696; speedTestUtils.ts lines 103, 166: the value
\* the catch clause returns.
CatchResult(c, rnd) ==
    IF c.engine = "static"
    THEN (IF c.fn = "download" THEN Random(50, 200, rnd)
          ELSE Random(30, 100, rnd))
    ELSE Rat(0, 1)

\* The call c has resolved with result.
Resolved(c, result) ==
    [c EXCEPT !.pc = "done", !.outcome = "resolved", !.result = result]

\* An exception is thrown at the line given of the function called.
Thrown(c, line, rnd) ==
    IF Caught(line, TryOf(c)) THEN Resolved(c, CatchResult(c, rnd))
    ELSE [c EXCEPT !.pc = "done", !.outcome = "rejected"]

\* speedtest.js lines 1517-1535, 1670-1693: the final result of the static
\* engine.
StaticFinish(c, rnd) ==
    LET finalSpeed ==
            IF Len(c.samples) > 0 THEN RatMean(c.samples)
            ELSE IF c.mbit > 0 /\ c.ms > 0 THEN Rat(c.mbit * 1000, c.ms)
            ELSE IF c.fn = "download" THEN Random(100, 400, rnd)
            ELSE Random(50, 200, rnd)
    IN Resolved(c, RatMax(Rat(1, 1), finalSpeed))

\* speedTestUtils.ts lines 94-100, 157-163
NextFinish(c) == Resolved(c, Rat(c.mbit * 1000, c.ms))

\* The function is invoked and runs to its first await.
\* speedtest.js lines 1419-1438, 1543-1549, 1570-1606, 1701-1707;
\* speedTestUtils.ts lines 51-61, 108-125.
CallEnter(rnd) ==
    /\ call.pc = "called"
    /\ call' =
           IF call.engine = "static" /\ call.local
           THEN [call EXCEPT !.pc = "sim",
                             !.base = IF call.fn = "download"
                                      THEN Random(50, 450, rnd)
                                      ELSE Random(30, 270, rnd)]
           ELSE IF /\ call.engine = "static"
                   /\ call.fn = "upload"
                   /\ GetRandomValuesThrows(STATIC_UPLOAD_CHUNK_SIZE)
           THEN Thrown(call, 1588, rnd)
           ELSE [call EXCEPT !.pc = "fetch"]
    /\ UNCHANGED <<otherVars, isLocal, pc, runs, isRunning, testStatus,
                   testResult, connectionType, paramVars, requestVars,
                   measureVars, now, probe, probeSpeed, ping, statusLog,
                   returned, rejected>>

\* speedtest.js lines 1618-1663: a chunk of the static upload took dt ms and
\* the server reported serverMs (0: no usable report).
StaticChunkDone(c, dt, serverMs) ==
    LET size == Mbit(STATIC_UPLOAD_CHUNK_SIZE)
        currentSpeed == IF serverMs > 0 THEN Rat(size * 1000, serverMs)
                        ELSE Rat(size * 1000, dt)
    IN [c EXCEPT !.mbit = @ + size,
                 !.i = @ + 1,
                 !.samples = IF currentSpeed.n > 0 /\ currentSpeed.d > 0
                             THEN Append(@, currentSpeed) ELSE @]

\* The fetch awaited by the function settles after dt ms: it rejects, or it
\* resolves with a non-2xx status, with no body, or with a 2xx status.
\* speedtest.js lines 1438-1451, 1606-1663; speedTestUtils.ts lines 61-68,
\* 125-155.
CallFetch(outcome, dt, serverMs, rnd) ==
    /\ call.pc = "fetch"
    /\ LET c == [call EXCEPT !.ms = @ + dt]
           up == StaticChunkDone(c, dt, serverMs)
           sent == [c EXCEPT !.mbit = @ + Mbit(MiB), !.i = @ + 1]
       IN call' =
           IF c.engine = "static" /\ c.fn = "download" THEN
               IF outcome = "reject" THEN Thrown(c, 1438, rnd)
               ELSE IF outcome = "notok" THEN Thrown(c, 1441, rnd)
               ELSE IF outcome = "nobody" THEN Thrown(c, 1444, rnd)
               ELSE [c EXCEPT !.pc = "read", !.sinceMs = 0, !.sinceMbit = 0]
           ELSE IF c.engine = "static" THEN
               IF outcome = "reject" THEN Thrown(c, 1606, rnd)
               ELSE IF outcome = "notok" THEN Thrown(c, 1615, rnd)
               ELSE IF up.i < StaticChunkCount THEN up
               ELSE StaticFinish(up, rnd)
           ELSE IF c.fn = "download" THEN
               IF outcome = "reject" THEN Thrown(c, 61, rnd)
               ELSE IF outcome = "nobody" THEN Thrown(c, 63, rnd)
               ELSE [c EXCEPT !.pc = "read", !.sinceMs = c.ms, !.sinceMbit = 0]
           ELSE
               IF outcome = "reject" THEN Thrown(c, 125, rnd)
               ELSE IF c.i >= 5 /\ c.ms > 8000 THEN NextFinish(sent)
               ELSE IF sent.i < NextChunkCount THEN sent
               ELSE NextFinish(sent)
    /\ UNCHANGED <<otherVars, isLocal, pc, runs, isRunning, testStatus,
                   testResult, connectionType, paramVars, requestVars,
                   measureVars, now, probe, probeSpeed, ping, statusLog,
                   returned, rejected>>

\* speedtest.js lines 1463-1506: a chunk of mbit megabits has been read by
\* the static download, dt ms after the previous one.
StaticChunkRead(c, mbit) ==
    LET sinceMs == c.sinceMs
        sinceMbit == c.sinceMbit + mbit
        currentSpeed == Rat(sinceMbit * 1000, sinceMs)
        measured == sinceMs >= STATIC_MEASUREMENT_INTERVAL
    IN [c EXCEPT !.mbit = @ + mbit,
                 !.i = @ + 1,
                 !.samples = IF measured /\ currentSpeed.n > 0
                             THEN Append(@, currentSpeed) ELSE @,
                 !.sinceMs = IF measured THEN 0 ELSE sinceMs,
                 !.sinceMbit = IF measured THEN 0 ELSE sinceMbit]

\* reader.read() settles after dt ms: it rejects, reports the end of the
\* body, or yields a chunk of mbit megabits.
\* speedtest.js lines 1454-1535; speedTestUtils.ts lines 70-100.
CallRead(outcome, mbit, dt, rnd) ==
    /\ call.pc = "read"
    /\ outcome = "value" => call.i < MaxReads
    /\ LET c == [call EXCEPT !.ms = @ + dt, !.sinceMs = @ + dt]
       IN call' =
           IF c.engine = "static" THEN
               IF outcome = "reject" THEN Thrown(c, 1455, rnd)
               ELSE IF outcome = "done" THEN StaticFinish(c, rnd)
               ELSE StaticChunkRead(c, mbit)
           ELSE
               IF outcome = "reject" THEN Thrown(c, 71, rnd)
               ELSE IF outcome = "done" THEN NextFinish(c)
               ELSE [c EXCEPT !.mbit = @ + mbit, !.i = @ + 1]
    /\ UNCHANGED <<otherVars, isLocal, pc, runs, isRunning, testStatus,
                   testResult, connectionType, paramVars, requestVars,
                   measureVars, now, probe, probeSpeed, ping, statusLog,
                   returned, rejected>>

\* speedtest.js lines 1552-1565, 1710-1723: one callback of the interval of
\* the simulated test of the static engine.
CallSim ==
    /\ call.pc = "sim"
    /\ LET progress == call.i + (IF call.fn = "download" THEN 5 ELSE 10)
       IN call' = IF progress >= 100
                  THEN Resolved([call EXCEPT !.i = progress], call.base)
                  ELSE [call EXCEPT !.i = progress]
    /\ UNCHANGED <<otherVars, isLocal, pc, runs, isRunning, testStatus,
                   testResult, connectionType, paramVars, requestVars,
                   measureVars, now, probe, probeSpeed, ping, statusLog,
                   returned, rejected>>

InitCall ==
    \E engine \in {"static", "next"}, fn \in {"download", "upload"},
       local \in BOOLEAN :
        /\ Loaded(local)
        /\ OthersIdle
        /\ netBudget = 0
        /\ call = [NoCall EXCEPT !.engine = engine, !.fn = fn,
                                 !.local = local, !.pc = "called"]

FetchOutcomes == {"reject", "notok", "nobody", "ok"}
ReadOutcomes == {"reject", "done", "value"}

NextCall ==
    \/ \E rnd \in RandomDraws : CallEnter(rnd)
    \/ \E o \in FetchOutcomes, dt \in CallDelays, sv \in ServerDurations,
          rnd \in RandomDraws : CallFetch(o, dt, sv, rnd)
    \/ \E o \in ReadOutcomes, m \in ReadMbit, dt \in CallDelays,
          rnd \in RandomDraws : CallRead(o, m, dt, rnd)
    \/ CallSim

InitRevisions == InitPhase \/ InitCall

NextRevisions == NextPhase \/ NextCall

SpecRevisions == InitRevisions /\ [][NextRevisions]_vars

(***************************************************************************)
(* A throughput phase followed from the settling of its race: every stream *)
(* of the phase has completed at the target duration, the race has         *)
(* resolved, and the phase is about to reduce the samples it collected.    *)
(***************************************************************************)
\* Most samples a phase has collected, and the speeds (Mbps) they show.
MaxSamples == 5
SampleSpeeds == {10, 20, 30}

\* The tiers of probeConnectionSpeed, by rank.
TierRank == <<"slow", "moderate", "fast", "very-fast", "ultra-fast">>
Tiers == {TierRank[r] : r \in DOMAIN TierRank}

\* speedtest.js lines 611-615, 820-824: the samples a phase pushes.
CollectedSamples(type) ==
    UNION {[1..n -> {[time |-> 2 * WARMUP_DURATION * 1000, speed |-> Rat(v, 1),
                      by |-> type] : v \in SampleSpeeds}] :
           n \in 0..MaxSamples}

InitConclude ==
    \E ct \in Tiers \cup {"unknown"}, type \in {"download", "upload"} :
        LET dl == type = "download"
            par == AdjustedParameters(ct)
            conc == IF dl THEN par.downloadConcurrency
                    ELSE par.uploadConcurrency
        IN /\ isLocal = FALSE
           /\ pc = IF dl THEN "dl_await" ELSE "ul_await"
           /\ runs = 1
           /\ isRunning = TRUE
           /\ testStatus = IF dl THEN TestStatus.DOWNLOAD ELSE TestStatus.UPLOAD
           /\ testResult =
                  [downloadSpeed |->
                       IF dl THEN Rat(0, 1)
                       ELSE Rat(calculateFallbackSpeed(ct, "download"), 1),
                   uploadSpeed |-> Rat(0, 1), latency |-> 20000, jitter |-> 0]
           /\ connectionType = ct
           /\ downloadFileSize = par.downloadFileSize
           /\ uploadChunkSize = par.uploadChunkSize
           /\ uploadConcurrency = par.uploadConcurrency
           /\ downloadConcurrency = par.downloadConcurrency
           /\ downloadRequestCount = (IF dl THEN conc ELSE 0)
           /\ uploadRequestCount = (IF dl THEN 0 ELSE conc)
           /\ xhrs = (IF dl
                      THEN [s \in 1..conc |->
                               [NewDownloadXhr(s - 1, s, 0) EXCEPT
                                  !.state = "loaded", !.warm = TRUE,
                                  !.startTime = 2 * WARMUP_DURATION * 1000]]
                      ELSE <<>>)
           /\ activeDownloadRequests = (IF dl THEN [s \in 1..conc |-> s]
                                        ELSE <<>>)
           /\ activeUploadRequests = <<>>
           /\ testStartTime = 0
           /\ speedSamples \in CollectedSamples(type)
           /\ now = (IF dl THEN TARGET_DL_DURATION ELSE TARGET_UL_DURATION)
                        * 1000
           /\ probe = NoProbe
           /\ probeSpeed = NULL
           /\ ping = NoPing
           /\ phase = [NoPhase EXCEPT
                         !.kind = IF dl THEN "dl" ELSE "ul",
                         !.launched = conc,
                         !.promises = [s \in 1..conc |-> "resolved"],
                         !.streams =
                             IF dl THEN <<>>
                             ELSE [s \in 1..conc |->
                                      [warm |-> TRUE,
                                       startTime |-> 2 * WARMUP_DURATION * 1000,
                                       chunkIndex |-> s % ChunksNeeded]],
                         !.race = "resolved"]
           /\ netBudget = 0
           /\ statusLog = (IF dl
                           THEN <<TestStatus.PROBING, TestStatus.IDLE,
                                  TestStatus.DOWNLOAD>>
                           ELSE <<TestStatus.PROBING, TestStatus.IDLE,
                                  TestStatus.DOWNLOAD, TestStatus.UPLOAD>>)
           /\ returned = (IF dl THEN {"probe", "latency"}
                          ELSE {"probe", "latency", "download"})
           /\ rejected = {}
           /\ call = NoCall
           /\ fill = NoFill
           /\ server = NoServer
           /\ events = <<>>
           /\ run = NoRun
           /\ progressInterval = TRUE

NextConclude ==
    \/ DlConclude
    \/ UlConclude

SpecConclude == InitConclude /\ [][NextConclude]_vars

(***************************************************************************)
(* A run followed from the return of the probe through measureLatency, on  *)
(* a non-local and on a local host, with pings of different round-trip     *)
(* times.                                                                  *)
(***************************************************************************)
\* Round-trip times (microseconds) a ping can measure, the speeds (Mbps)
\* the probes have measured, and the number of pings that succeed.
LatencyValues == {300, 9000, 50000}
LatencyProbeSpeeds == {8, 30, 300}
MaxPings == 5

InitLatency ==
    \E v \in LatencyProbeSpeeds, local \in BOOLEAN :
        /\ isLocal = local
        /\ pc = "pause1"
        /\ runs = 1
        /\ isRunning = TRUE
        /\ testStatus = TestStatus.PROBING
        /\ testResult = [downloadSpeed |-> Rat(0, 1), uploadSpeed |-> Rat(0, 1),
                         latency |-> 0, jitter |-> 0]
        /\ connectionType = ClassifyTier(v)
        /\ downloadFileSize = AdjustedParameters(ClassifyTier(v)).downloadFileSize
        /\ uploadChunkSize = AdjustedParameters(ClassifyTier(v)).uploadChunkSize
        /\ uploadConcurrency =
               AdjustedParameters(ClassifyTier(v)).uploadConcurrency
        /\ downloadConcurrency =
               AdjustedParameters(ClassifyTier(v)).downloadConcurrency
        /\ downloadRequestCount = 0
        /\ uploadRequestCount = 0
        /\ activeDownloadRequests = <<>>
        /\ activeUploadRequests = <<>>
        /\ testStartTime = 0
        /\ speedSamples = <<>>
        /\ now = 0
        /\ probe = [results |-> <<v, v, v, v>>, i |-> PROBE_COUNT - 1,
                    outcomes |-> <<v, v, v, v>>]
        /\ probeSpeed = v
        /\ ping = NoPing
        /\ xhrs = <<>>
        /\ phase = NoPhase
        /\ netBudget = 0
        /\ statusLog = <<TestStatus.PROBING>>
        /\ returned = {"probe"}
        /\ rejected = {}
        /\ call = NoCall
        /\ fill = NoFill
        /\ server = NoServer
        /\ events = <<>>
        /\ run = NoRun
        /\ progressInterval = FALSE

NextLatency ==
    \/ Pause1Done
    \/ \E ok \in BOOLEAN : LatWarmup(ok)
    \/ \E o \in LatencyValues : Len(ping.results) < MaxPings /\ LatPing(o)
    \/ \E o \in {FAIL, NOTOK} : LatPing(o)

SpecLatency == InitLatency /\ [][NextLatency]_vars

(***************************************************************************)
(* measureLatency with any number of successful pings up to PING_TESTS.    *)
(* The round-trip times do not decrease during the test, which leaves one  *)
(* sequence of pings for every multiset of round-trip times.               *)
(***************************************************************************)
NextPings ==
    \/ Pause1Done
    \/ \E ok \in BOOLEAN : LatWarmup(ok)
    \/ \E o \in LatencyValues :
          /\ ping.last # NULL => o >= ping.last
          /\ LatPing(o)
    \/ \E o \in {FAIL, NOTOK} : LatPing(o)

SpecPings == InitLatency /\ [][NextPings]_vars

(***************************************************************************)
(* The chunk loop of measureUploadSpeed of the static engine (speedtest.js *)
(* lines 1603-1663), followed as it is written from its first request.     *)
(* In a browser the call never gets this far: crypto.getRandomValues at    *)
(* line 1588 throws for a chunk of STATIC_UPLOAD_CHUNK_SIZE bytes          *)
(* (GetRandomValuesThrows), which is why SpecRevisions does not reach the  *)
(* loop.  SpecChunk draws the inputs of the loop body, the time a request  *)
(* takes and the duration the server reports, and applies the loop body    *)
(* to them.                                                                *)
(***************************************************************************)
\* Chunks that are uploaded before a request fails.
MaxChunks == 3

InitChunk ==
    /\ Loaded(FALSE)
    /\ OthersIdle
    /\ netBudget = 0
    /\ call = [NoCall EXCEPT !.engine = "static", !.fn = "upload",
                             !.pc = "fetch"]

NextChunk ==
    \E o \in FetchOutcomes, dt \in CallDelays, sv \in ServerDurations,
       rnd \in RandomDraws :
        /\ o \in {"ok", "nobody"} => call.i < MaxChunks
        /\ CallFetch(o, dt, sv, rnd)

SpecChunk == InitChunk /\ [][NextChunk]_vars

(***************************************************************************)
(* Secure random bytes for an upload payload: generateRandomData of the    *)
(* adaptive engine, followed one iteration of its loop at a time, and the  *)
(* call the earlier static engine makes on its whole chunk.                *)
(***************************************************************************)
\* Buffer sizes generateRandomData is asked for: around the block size, and
\* the uploadChunkSize of every tier (speedtest.js line 705).
FillSizes ==
    {0, 1, CRYPTO_BLOCK_SIZE - 1, CRYPTO_BLOCK_SIZE, CRYPTO_BLOCK_SIZE + 1}
        \cup {AdjustedParameters(ct).uploadChunkSize : ct \in Tiers}

InitFill ==
    /\ Loaded(FALSE)
    /\ netBudget = 0
    /\ call = NoCall
    /\ \/ \E size \in FillSizes :
             fill = [NoFill EXCEPT !.fn = "generateRandomData", !.size = size]
       \/ fill = [NoFill EXCEPT !.fn = "measureUploadSpeed",
                                !.size = STATIC_UPLOAD_CHUNK_SIZE]
    /\ server = NoServer
    /\ events = <<>>
    /\ run = NoRun

\* speedtest.js lines 171-175: one iteration of the loop of
\* generateRandomData.
FillBlock ==
    /\ fill.fn = "generateRandomData"
    /\ fill.outcome = "none"
    /\ fill.offset < fill.size
    /\ LET length == Min(CRYPTO_BLOCK_SIZE, fill.size - fill.offset)
       IN fill' =
              IF GetRandomValuesThrows(length)
              THEN [fill EXCEPT !.outcome = "thrown"]
              ELSE [fill EXCEPT
                      !.calls = Append(@, [offset |-> fill.offset,
                                           length |-> length]),
                      !.offset = @ + CRYPTO_BLOCK_SIZE]
    /\ UNCHANGED <<engineVars, call, server, events, run>>

\* speedtest.js lines 171, 177: the loop condition fails and the buffer is
\* returned.
FillReturn ==
    /\ fill.fn = "generateRandomData"
    /\ fill.outcome = "none"
    /\ fill.offset >= fill.size
    /\ fill' = [fill EXCEPT !.outcome = "returned"]
    /\ UNCHANGED <<engineVars, call, server, events, run>>

\* speedtest.js lines 1587-1588: the static engine passes its whole chunk to
\* crypto.getRandomValues.
StaticFill ==
    /\ fill.fn = "measureUploadSpeed"
    /\ fill.outcome = "none"
    /\ fill' = [fill EXCEPT
                  !.calls = Append(@, [offset |-> 0, length |-> fill.size]),
                  !.outcome = IF GetRandomValuesThrows(fill.size)
                              THEN "thrown" ELSE "returned"]
    /\ UNCHANGED <<engineVars, call, server, events, run>>

NextFill ==
    \/ FillBlock
    \/ FillReturn
    \/ StaticFill

SpecFill == InitFill /\ [][NextFill]_vars

(***************************************************************************)
(* GET /testfile: handleTestFile of the Go server (src/unnamed/part_002)   *)
(* and the GET handler of the Next.js route (src/src/app/api/ping/route.ts *)
(* lines 10-65), followed from the arrival of the request, one chunk of    *)
(* the body at a time.                                                     *)
(***************************************************************************)
\* part_002 line 21
fixedDownloadSize == 32 * MiB

\* route.ts line 22: the largest body the route streams.
MaxTestFileSize == 500 * MiB

\* Values of the size parameter of the request.
RequestSizes == {0, 1, MiB, MiB + 1, 5 * MiB, MaxTestFileSize,
                 MaxTestFileSize + MiB}

InitServer ==
    /\ Loaded(FALSE)
    /\ netBudget = 0
    /\ call = NoCall
    /\ fill = NoFill
    /\ \E h \in {"handleTestFile", "GET"}, size \in RequestSizes :
          server = [NoServer EXCEPT !.handler = h, !.pc = "received",
                                    !.requested = size]
    /\ events = <<>>
    /\ run = NoRun

\* part_002 lines 70-107: the size parameter is not read; the headers
\* announce the fixed size.
HandleTestFile ==
    /\ server.handler = "handleTestFile"
    /\ server.pc = "received"
    /\ server' = [server EXCEPT !.pc = "streaming",
                                !.announced = fixedDownloadSize,
                                !.bytesRemaining = fixedDownloadSize]
    /\ UNCHANGED <<engineVars, call, fill, events, run>>

\* part_002 lines 109-138: one iteration of the streaming loop; w.Write
\* fails when the client has gone away.
WriteChunk(ok) ==
    /\ server.handler = "handleTestFile"
    /\ server.pc = "streaming"
    /\ LET currentChunkSize == Min(64 * 1024, server.bytesRemaining)
           left == server.bytesRemaining - currentChunkSize
       IN server' =
              IF ~ok THEN [server EXCEPT !.pc = "failed"]
              ELSE [server EXCEPT !.written = @ + currentChunkSize,
                                  !.bytesRemaining = left,
                                  !.pc = IF left > 0 THEN "streaming"
                                         ELSE "ended"]
    /\ UNCHANGED <<engineVars, call, fill, events, run>>

\* route.ts lines 15-27, 53-64: validSize is announced and the first chunk
\* is pushed when the stream starts.
RouteGet ==
    /\ server.handler = "GET"
    /\ server.pc = "received"
    /\ LET validSize == Min(server.requested, MaxTestFileSize)
       IN server' = [server EXCEPT !.pc = "streaming",
                                   !.announced = validSize,
                                   !.bytesRemaining = validSize]
    /\ UNCHANGED <<engineVars, call, fill, events, run>>

\* route.ts lines 31-50: pushChunk.
PushChunk ==
    /\ server.handler = "GET"
    /\ server.pc = "streaming"
    /\ LET currentChunkSize == Min(MiB, server.bytesRemaining)
       IN server' =
              IF server.bytesRemaining <= 0
              THEN [server EXCEPT !.pc = "ended"]
              ELSE [server EXCEPT !.written = @ + currentChunkSize,
                                  !.bytesRemaining = @ - currentChunkSize]
    /\ UNCHANGED <<engineVars, call, fill, events, run>>

NextServer ==
    \/ HandleTestFile
    \/ \E ok \in BOOLEAN : WriteChunk(ok)
    \/ RouteGet
    \/ PushChunk

SpecServer == InitServer /\ [][NextServer]_vars

(***************************************************************************)
(* A throughput phase on the network path, with the progress events the    *)
(* browser dispatches kept in events: the request, the clock reading, the  *)
(* megabits since the previous event of the request, and the sample the    *)
(* handler pushed, if any.                                                 *)
(***************************************************************************)
\* Megabits carried by one progress event: none, some, and more than any
\* window can carry below the speed limit.
SampleMbit == {0, 40, 2000000}

\* The slow tier, which runs one stream in each direction.
InitSample == InitPhase /\ connectionType = "slow"

\* speedtest.js lines 580-620, 798-829: a progress event is dispatched to
\* request r and its handler runs.
ProgressObserved(r, mbit) ==
    /\ DlProgressEvent(r, mbit) \/ UlProgressEvent(r, mbit)
    /\ LET pushed == Len(speedSamples') = Len(speedSamples) + 1
       IN events' =
              Append(events,
                     [r |-> r, kind |-> xhrs[r].kind, time |-> now,
                      mbit |-> mbit, pushed |-> pushed,
                      speed |-> IF pushed
                                THEN speedSamples'[Len(speedSamples')].speed
                                ELSE Rat(0, 1)])

NextSample ==
    \/ Pause2Done
    \/ \E r \in DOMAIN xhrs, m \in SampleMbit : ProgressObserved(r, m)
    \/ DlGrace
    \/ DlConclude
    \/ Pause3Done
    \/ \E ok \in BOOLEAN : UlGenerate(ok)
    \/ \E r \in DOMAIN xhrs : UlLoad(r, 200)
    \/ UlGrace
    \/ UlConclude
    \/ Tick

SpecSample == InitSample /\ [][NextSample]_vars

(***************************************************************************)
(* A simulated throughput phase followed on the clock of its own interval: *)
(* the callbacks of simulateSpeedTest run at multiples of updateFrequency. *)
(***************************************************************************)
\* speedtest.js line 887: ms between two callbacks of the interval.
updateFrequency == 150

\* The clock readings at which a callback is followed: one every 6 s, the
\* last one before the target duration, and the target duration.
SimReadings ==
    {k * 40 * updateFrequency : k \in 0..7}
        \cup {TARGET_DL_DURATION * 1000 - updateFrequency,
              TARGET_DL_DURATION * 1000}

InitSim == InitPhase /\ Simulated

\* speedtest.js lines 903, 957: the interval waits for its next callback.
SimTick ==
    /\ pc \in {"dl_sim", "ul_sim"}
    /\ phase.simFired
    /\ \E r \in SimReadings :
          /\ r > now
          /\ \A q \in SimReadings : q > now => r <= q
          /\ now' = r
    /\ phase' = [phase EXCEPT !.simFired = FALSE]
    /\ UNCHANGED <<otherVars, call, rejected, isLocal, pc, runs, isRunning,
                   testStatus, testResult, connectionType, paramVars,
                   requestVars, testStartTime, speedSamples, probe,
                   probeSpeed, ping, xhrs, netBudget, statusLog, returned>>

\* speedtest.js lines 953-956: the progress (percent) a callback of the
\* interval passes to updateProgress.
SimProgress(elapsedMs, testDuration) ==
    Rat(elapsedMs * 100, testDuration * 1000)

NextSim ==
    \/ Pause2Done
    \/ Pause3Done
    \/ \E f \in SimFactors : SimInterval(f)
    \/ SimTick

SpecSim == InitSim /\ [][NextSim]_vars

(***************************************************************************)
(* A run in which an exception reaches the catch clause of startTest.  No  *)
(* failure of a request does (the measurement functions catch them all),   *)
(* so the exception is an input: a statement of the try block of startTest *)
(* throws while the run is at any of its positions.                        *)
(***************************************************************************)
\* The phase startTest is in at position p.
PhaseAt(p) ==
    IF p \in {"probe_small", "probe_main", "probe_delay", "pause1"}
    THEN "probe"
    ELSE IF p \in {"lat_warmup", "lat_ping", "pause2"} THEN "latency"
    ELSE IF p \in {"dl_launch", "dl_await", "dl_sim", "pause3"}
    THEN "download"
    ELSE "upload"

\* speedtest.js lines 125-132: the catch clause alerts the user and the
\* finally block resets.
StartTestThrows ==
    /\ isRunning
    /\ pc # "idle"
    /\ RunFails(PhaseAt(pc), xhrs)
    /\ UNCHANGED <<componentVars, call, isLocal, runs, connectionType, paramVars,
                   testStartTime, now, probe, ping, phase>>

NextFailure ==
    \/ Next
    \/ StartTestThrows

SpecFailure == Init /\ [][NextFailure]_vars

(***************************************************************************)
(* Several runs in one page.  The start button stays on the page, so a     *)
(* click arrives in any state: while a run is active, and after a run has  *)
(* ended by returning or by an exception.                                  *)
(***************************************************************************)
MaxRuns == 2

\* A guard that lets every click through.
NeverIgnoresClick == FALSE

\* speedtest.js line 81
IgnoresClick == isRunning

\* speedtest.js lines 80-96: a click on the start button in any state.
StartClick ==
    /\ runs < MaxRuns
    /\ IF IgnoresClick THEN UNCHANGED vars ELSE BeginRun

\* The inputs of the runs: every probe measures 300 Mbps, a ping answers
\* or fails.
RestartProbes == {300}
RestartPings == {20000, FAIL}

NextRuns ==
    \/ StartClick
    \/ StartTestThrows
    \/ \E o \in RestartProbes : ProbeSmall(o)
    \/ \E o \in RestartProbes : ProbeMain(o)
    \/ ProbeDelay
    \/ Pause1Done
    \/ \E ok \in BOOLEAN : LatWarmup(ok)
    \/ \E o \in RestartPings : LatPing(o)
    \/ Pause2Done
    \/ DlStagger
    \/ \E r \in DOMAIN xhrs, m \in ProgressMbit : DlProgress(r, m)
    \/ \E r \in DOMAIN xhrs, st \in Statuses : DlLoad(r, st)
    \/ \E r \in DOMAIN xhrs : DlError(r)
    \/ \E r \in DOMAIN xhrs : DlTimeout(r)
    \/ DlGrace
    \/ DlConclude
    \/ Pause3Done
    \/ \E ok \in BOOLEAN : UlGenerate(ok)
    \/ UlStagger
    \/ \E r \in DOMAIN xhrs, m \in ProgressMbit : UlProgress(r, m)
    \/ \E r \in DOMAIN xhrs, st \in Statuses : UlLoad(r, st)
    \/ \E r \in DOMAIN xhrs : UlError(r)
    \/ \E r \in DOMAIN xhrs : UlTimeout(r)
    \/ UlGrace
    \/ UlConclude
    \/ \E f \in SimFactors : SimInterval(f)
    \/ Tick

SpecRuns == Init /\ [][NextRuns]_vars

(***************************************************************************)
(* runSpeedTest of the Next.js front end (speedTestUtils.ts lines 171-204) *)
(* called by startTest of the SpeedTest component (SpeedTest.tsx lines     *)
(* 42-59).  One action runs the code from one await to the next.  Byte     *)
(* counts are whole MiB, so the percentages are computed exactly.          *)
(***************************************************************************)
\* speedTestUtils.ts line 10.
NEXT_PING_TESTS == 10

\* speedTestUtils.ts lines 6, 8.
TEST_FILE_SIZE == 100 * MiB
UPLOAD_CHUNK_SIZE == 1 * MiB

\* The sizes of the chunks reader.read() delivers.
ReadSizes == {5 * MiB, 25 * MiB}

\* The status every data callback would carry were the wrapper of the
\* download copied for the upload.
AlwaysDownload(fn) == "download"

\* speedTestUtils.ts lines 190-192, 196-198: the callbacks runSpeedTest
\* hands to measureDownloadSpeed and measureUploadSpeed.
CallbackStatus(fn) == IF fn = "download" THEN "download" ELSE "upload"

\* speedTestUtils.ts lines 79, 136.
ProgressPercent(totalBytes, length) ==
    ((totalBytes \div MiB) * 100) \div (length \div MiB)

\* speedTestUtils.ts lines 83, 140.
DataDue(progress, lastProgress, sinceMs) ==
    progress - lastProgress > 10 \/ sinceMs > 500

\* onProgress(status) and onProgress(status, data) as handleProgress sees
\* them (SpeedTest.tsx lines 26-39).
Announced(log, status) == Append(log, [status |-> status, data |-> FALSE])
Reported(log, fn) == Append(log, [status |-> CallbackStatus(fn), data |-> TRUE])

\* The locals of a measurement function at its start (lines 55-58, 111-114).
FreshLocals(r) ==
    [r EXCEPT !.i = 0, !.totalBytes = 0, !.lastProgress = 0, !.sinceMs = 0,
              !.elapsedMs = 0]

\* speedTestUtils.ts lines 94-104, 195-196, 111-125: measureDownloadSpeed
\* returns, runSpeedTest announces the upload and measureUploadSpeed runs to
\* its first fetch.
DownloadReturns(r) ==
    [FreshLocals(r) EXCEPT !.pc = "ul_chunk",
                           !.written = @ \cup {"downloadSpeed"},
                           !.log = Announced(r.log, "upload")]

\* speedTestUtils.ts lines 157-167, 196, 201-203: measureUploadSpeed
\* returns and runSpeedTest announces complete and returns its result.
UploadReturns(r) ==
    [r EXCEPT !.pc = "resolved",
              !.written = @ \cup {"uploadSpeed"},
              !.log = Announced(r.log, "complete")]

InitRun ==
    /\ Loaded(FALSE)
    /\ netBudget = 0
    /\ call = NoCall
    /\ fill = NoFill
    /\ server = NoServer
    /\ events = <<>>
    /\ run = NoRun

\* SpeedTest.tsx lines 42-51, speedTestUtils.ts lines 175-184, 17-23: the
\* button is clicked; runSpeedTest announces idle and measureLatency runs
\* to its first fetch.
RunStart ==
    /\ ~run.isRunning
    /\ run' = [NoRun EXCEPT !.pc = "latency", !.isRunning = TRUE,
                            !.log = Announced(<<>>, "idle")]
    /\ UNCHANGED <<engineVars, call, fill, server, events>>

\* speedTestUtils.ts lines 19-32, 34-47, 185-189, 54-61: a ping settles and
\* its delay passes; after the last one measureLatency returns, runSpeedTest
\* announces the download and measureDownloadSpeed runs to its fetch.
RunPing(ok) ==
    /\ run.pc = "latency"
    /\ run' = IF run.i + 1 < NEXT_PING_TESTS
              THEN [run EXCEPT !.i = @ + 1]
              ELSE [FreshLocals(run) EXCEPT
                      !.pc = "dl_fetch",
                      !.written = @ \cup {"latency", "jitter"},
                      !.log = Announced(run.log, "download")]
    /\ UNCHANGED <<engineVars, call, fill, server, events>>

\* speedTestUtils.ts lines 61-71, 101-104: the fetch of the test file
\* settles.
RunFetch(ok) ==
    /\ run.pc = "dl_fetch"
    /\ run' = IF ok THEN [run EXCEPT !.pc = "dl_read"]
                    ELSE DownloadReturns(run)
    /\ UNCHANGED <<engineVars, call, fill, server, events>>

\* speedTestUtils.ts lines 70-92: reader.read() settles dt ms after the
\* previous one, with a chunk, with done, or by rejecting.
RunRead(outcome, bytes, dt) ==
    /\ run.pc = "dl_read"
    /\ outcome = "chunk" => run.totalBytes + bytes <= TEST_FILE_SIZE
    /\ outcome = "done" => run.totalBytes = TEST_FILE_SIZE
    /\ run' =
         IF outcome = "chunk"
         THEN LET totalBytes == run.totalBytes + bytes
                  progress == ProgressPercent(totalBytes, TEST_FILE_SIZE)
                  sinceMs == run.sinceMs + dt
              IN IF DataDue(progress, run.lastProgress, sinceMs)
                 THEN [run EXCEPT !.totalBytes = totalBytes,
                                  !.log = Reported(@, "download"),
                                  !.lastProgress = progress,
                                  !.sinceMs = 0]
                 ELSE [run EXCEPT !.totalBytes = totalBytes,
                                  !.sinceMs = sinceMs]
         ELSE DownloadReturns(run)
    /\ UNCHANGED <<engineVars, call, fill, server, events>>

\* speedTestUtils.ts lines 121-155: the fetch of an upload chunk settles dt
\* ms after the previous one.
RunUpload(ok, dt) ==
    /\ run.pc = "ul_chunk"
    /\ run' =
         IF ~ok THEN UploadReturns(run)
         ELSE LET totalBytes == run.totalBytes + UPLOAD_CHUNK_SIZE
                  progress == ProgressPercent(totalBytes, TEST_FILE_SIZE)
                  sinceMs == run.sinceMs + dt
                  elapsedMs == run.elapsedMs + dt
                  chunkCount == (TEST_FILE_SIZE + UPLOAD_CHUNK_SIZE - 1)
                                    \div UPLOAD_CHUNK_SIZE
                  due == DataDue(progress, run.lastProgress, sinceMs)
                  after ==
                      [run EXCEPT
                         !.totalBytes = totalBytes,
                         !.elapsedMs = elapsedMs,
                         !.log = IF due THEN Reported(@, "upload") ELSE @,
                         !.lastProgress = IF due THEN progress ELSE @,
                         !.sinceMs = IF due THEN 0 ELSE sinceMs]
              IN IF \/ run.i >= 5 /\ elapsedMs > 8 * 1000
                    \/ run.i + 1 >= chunkCount
                 THEN UploadReturns(after)
                 ELSE [after EXCEPT !.i = @ + 1]
    /\ UNCHANGED <<engineVars, call, fill, server, events>>

\* SpeedTest.tsx lines 51-58: the promise of runSpeedTest has resolved;
\* startTest stores the result and shows it.
ShowResult ==
    /\ run.pc = "resolved"
    /\ run' = [run EXCEPT !.pc = "idle", !.isRunning = FALSE,
                          !.showResults = TRUE]
    /\ UNCHANGED <<engineVars, call, fill, server, events>>

NextRun ==
    \/ RunStart
    \/ \E ok \in BOOLEAN : RunPing(ok)
    \/ \E ok \in BOOLEAN : RunFetch(ok)
    \/ \E outcome \in {"chunk", "done", "error"}, bytes \in ReadSizes,
          dt \in CallDelays : RunRead(outcome, bytes, dt)
    \/ \E ok \in BOOLEAN, dt \in CallDelays : RunUpload(ok, dt)
    \/ ShowResult

SpecRun == InitRun /\ [][NextRun]_vars

(***************************************************************************)
(* The throughput phases under the scheduling of the browser: a timer that *)
(* is due fires, the continuation of a settled await runs, and time        *)
(* passes.  Nothing is assumed of the network: no request need ever        *)
(* receive an event.                                                       *)
(***************************************************************************)
SpecTermination ==
    /\ InitPhase
    /\ [][NextPhase]_vars
    /\ WF_vars(Tick)
    /\ WF_vars(Pause2Done)
    /\ WF_vars(DlStagger)
    /\ WF_vars(DlGrace)
    /\ WF_vars(DlConclude)
    /\ WF_vars(Pause3Done)
    /\ WF_vars(UlGenerate(TRUE))
    /\ WF_vars(UlStagger)
    /\ WF_vars(UlGrace)
    /\ WF_vars(UlConclude)

(***************************************************************************)
(* measureLatency of the other revisions: the earlier static engine        *)
(* (speedtest.js lines 1350-1416) and the Next.js client                   *)
(* (speedTestUtils.ts lines 13-48).  Times are in microseconds; the static *)
(* engine runs on a host that is not local.                                *)
(***************************************************************************)
\* speedtest.js line 1269
STATIC_PING_TESTS == 10

\* Round-trip times a ping can measure.
RevisionPings == {10000, 30000}

\* pingResults.reduce((sum, time) => sum + Math.abs(time - latency), 0) for
\* latency = total / n, multiplied by n.
RECURSIVE DeviationSum(_, _, _)
DeviationSum(s, total, n) ==
    IF s = <<>> THEN 0
    ELSE (IF n * Head(s) >= total THEN n * Head(s) - total
          ELSE total - n * Head(s)) + DeviationSum(Tail(s), total, n)

\* speedtest.js lines 1380-1395: the condition under which the static
\* engine replaces its measurements by simulated ones.
StaticSimulates(pingResults, local) ==
    \/ local
    \/ Len(pingResults) = 0
    \/ SumSeq(pingResults) < 5000 * Len(pingResults)

\* speedtest.js lines 1389-1392: simulatedPings for the draws rnds.
SimulatedPings(rnds) == [k \in 1..10 |-> 5000 + rnds[k] * 100]

\* speedTestUtils.ts lines 35-47 and speedtest.js lines 1398-1415: the mean
\* of pingResults and the mean deviation from it, or the defaults.
MeanAndDeviation(pingResults, defaults) ==
    LET n == Len(pingResults)
        total == SumSeq(pingResults)
    IN IF n > 0
       THEN [latency |-> Rat(total, n),
             jitter |-> Rat(DeviationSum(pingResults, total, n), n * n)]
       ELSE defaults

InitJitter ==
    \E engine \in {"static", "next"} :
        /\ Loaded(FALSE)
        /\ OthersIdle
        /\ netBudget = 0
        /\ call = [NoCall EXCEPT !.engine = engine, !.fn = "latency",
                                 !.pc = "ping"]

\* speedtest.js lines 1356-1377, speedTestUtils.ts lines 19-32: the fetch of
\* ping i settles; unless it was the last one its delay passes and the next
\* ping is sent.
RevisionPing(outcome) ==
    /\ call.fn = "latency"
    /\ call.pc = "ping"
    /\ call' = [call EXCEPT
                  !.samples = IF outcome = FAIL THEN @ ELSE Append(@, outcome),
                  !.i = @ + 1,
                  !.pc = IF call.i + 1 < (IF call.engine = "static"
                                          THEN STATIC_PING_TESTS
                                          ELSE NEXT_PING_TESTS)
                         THEN "ping" ELSE "delay"]
    /\ UNCHANGED <<engineVars, otherVars>>

\* speedtest.js lines 1376-1415, speedTestUtils.ts lines 31-47: the delay
\* after the last ping ends and the result is computed and returned.
RevisionLatencyReturns ==
    /\ call.fn = "latency"
    /\ call.pc = "delay"
    /\ IF call.engine = "static" /\ StaticSimulates(call.samples, call.local)
       THEN \E rnds \in [1..10 -> RandomDraws] :
               call' = [call EXCEPT
                          !.pc = "done", !.outcome = "resolved",
                          !.result =
                              MeanAndDeviation(SimulatedPings(rnds),
                                               [latency |-> Rat(5000, 1),
                                                jitter |-> Rat(2000, 1)])]
       ELSE call' = [call EXCEPT
                       !.pc = "done", !.outcome = "resolved",
                       !.result =
                           MeanAndDeviation(
                               call.samples,
                               IF call.engine = "static"
                               THEN [latency |-> Rat(5000, 1),
                                     jitter |-> Rat(2000, 1)]
                               ELSE [latency |-> Rat(0, 1),
                                     jitter |-> Rat(0, 1)])]
    /\ UNCHANGED <<engineVars, otherVars>>

NextJitter ==
    \/ \E o \in RevisionPings \cup {FAIL} : RevisionPing(o)
    \/ RevisionLatencyReturns

SpecJitter == InitJitter /\ [][NextJitter]_vars

(***************************************************************************)
(* Properties.                                                             *)
(***************************************************************************)
IsPrefix(s, t) == Len(s) <= Len(t) /\ SubSeq(t, 1, Len(s)) = s

StatusOrder ==
    <<TestStatus.PROBING, TestStatus.IDLE, TestStatus.DOWNLOAD,
      TestStatus.UPLOAD, TestStatus.COMPLETE>>

ProbePcs == {"probe_small", "probe_main", "probe_delay"}
LatencyPcs == {"lat_warmup", "lat_ping"}
DownloadPcs == {"dl_launch", "dl_await", "dl_sim"}
UploadPcs == {"ul_gen", "ul_launch", "ul_await", "ul_sim"}

\* C1: in a run of startTest the statuses passed to updateStatus are a
\* prefix of PROBING, IDLE, DOWNLOAD, UPLOAD, COMPLETE; while a phase runs the
\* phases that have returned are exactly the phases before it; and the
\* status is COMPLETE only when the probe, the latency, the download and the
\* upload phase have all returned.
PhasesInOrder ==
    /\ IsPrefix(statusLog, StatusOrder)
    /\ pc \in ProbePcs => returned = {} /\ testStatus = TestStatus.PROBING
    /\ pc = "pause1" => returned = {"probe"}
    /\ pc \in LatencyPcs =>
           returned = {"probe"} /\ testStatus = TestStatus.IDLE
    /\ pc = "pause2" => returned = {"probe", "latency"}
    /\ pc \in DownloadPcs =>
           /\ returned = {"probe", "latency"}
           /\ testStatus = TestStatus.DOWNLOAD
    /\ pc = "pause3" => returned = {"probe", "latency", "download"}
    /\ pc \in UploadPcs =>
           /\ returned = {"probe", "latency", "download"}
           /\ testStatus = TestStatus.UPLOAD
    /\ testStatus = TestStatus.COMPLETE =>
           returned = {"probe", "latency", "download", "upload"}

\* A run has gone through all its phases and is complete.
RunComplete ==
    /\ pc = "idle"
    /\ testStatus = TestStatus.COMPLETE
    /\ statusLog = StatusOrder

\* C2: when probeConnectionSpeed has returned the speed v, the tier is the
\* classification of v by the thresholds 10, 50, 200, 750, and the
\* parameters of the run are those of that tier.
TierClassifiesProbe ==
    probeSpeed # NULL =>
        /\ connectionType = ClassifyTier(probeSpeed)
        /\ downloadConcurrency =
               AdjustedParameters(ClassifyTier(probeSpeed)).downloadConcurrency

\* C3: a download phase on the network path in which no stream has failed
\* concludes only when TARGET_DL_DURATION has elapsed since its start.
DownloadRunsTargetDuration ==
    [][(/\ pc = "dl_await"
        /\ pc' = "pause3"
        /\ \A r \in DOMAIN xhrs : xhrs[r].state # "failed")
       => now - testStartTime >= TARGET_DL_DURATION * 1000]_vars

\* C4: when a download stream fails (error, timeout, non-2xx status) the
\* phase is not driven into its error branch, the samples stay, and if the
\* test window is open a replacement stream is started for the slot.
StreamFailureKeepsPhase ==
    [][\A r \in DOMAIN xhrs :
          (/\ r \in DOMAIN xhrs'
           /\ xhrs[r].kind = "dl"
           /\ InFlight(xhrs[r])
           /\ xhrs'[r].state = "failed")
          => /\ phase'.race # "rejected"
             /\ speedSamples' = speedSamples
             /\ now - testStartTime < TARGET_DL_DURATION * 1000 =>
                    \E q \in DOMAIN xhrs' :
                        /\ q \notin DOMAIN xhrs
                        /\ InFlight(xhrs'[q])
                        /\ xhrs'[q].slot = xhrs[r].slot]_vars

\* The start of the running throughput phase, as the phase reads it.
PhaseStart == IF phase.kind = "sim" THEN phase.timerSetAt ELSE testStartTime

\* C5: no sample of the sample sequence has a timestamp earlier than the
\* start of its phase plus WARMUP_DURATION, in the download phase, the
\* upload phase and the simulation.
WarmupDiscard ==
    \A i \in DOMAIN speedSamples :
        speedSamples[i].time >= PhaseStart + WARMUP_DURATION * 1000

\* The download phase has reduced a non-empty sequence of samples into its
\* result, all of them taken after the warm-up.
SamplesReduced ==
    /\ pc = "pause3"
    /\ Len(speedSamples) > 0
    /\ testResult.downloadSpeed =
           calculateFinalSpeed(speedSamples, connectionType, "download")

\* C6: during the download phase the sample sequence only grows: a sample
\* that has been appended stays, unchanged, until the phase ends.
SamplesKept ==
    [][(pc \in {"dl_launch", "dl_await"} /\ pc' \in {"dl_launch", "dl_await"})
       => IsPrefix(speedSamples, speedSamples')]_vars

\* The request appended by a step is a request in flight for the slot.
StartedFor(slot, kind) ==
    /\ Len(xhrs') = Len(xhrs) + 1
    /\ xhrs'[Len(xhrs')].kind = kind
    /\ xhrs'[Len(xhrs')].slot = slot
    /\ InFlight(xhrs'[Len(xhrs')])

\* C7: a download stream that completes successfully gets a replacement
\* for its slot if and only if less than TARGET_DL_DURATION has elapsed; an
\* upload stream whose request settles issues its next chunk request if
\* and only if less than TARGET_UL_DURATION has elapsed, and resolves
\* otherwise.
ReplacementWithinWindow ==
    [][\A r \in DOMAIN xhrs :
          /\ (/\ r \in DOMAIN xhrs'
              /\ xhrs[r].kind = "dl"
              /\ InFlight(xhrs[r])
              /\ xhrs'[r].state = "loaded")
             => IF now - testStartTime < TARGET_DL_DURATION * 1000
                THEN StartedFor(xhrs[r].slot, "dl")
                ELSE Len(xhrs') = Len(xhrs)
          /\ (/\ r \in DOMAIN xhrs'
              /\ xhrs[r].kind = "ul"
              /\ InFlight(xhrs[r])
              /\ xhrs'[r].state \in {"loaded", "failed"})
             => IF now - testStartTime < TARGET_UL_DURATION * 1000
                THEN StartedFor(xhrs[r].slot, "ul")
                ELSE /\ Len(xhrs') = Len(xhrs)
                     /\ phase'.promises[xhrs[r].promise] = "resolved"]_vars

\* A replacement download stream is in flight.
ReplacementStarted ==
    \E r \in DOMAIN xhrs :
        xhrs[r].kind = "dl" /\ xhrs[r].promise = 0 /\ InFlight(xhrs[r])

\* C8: outside the download phase no download request is in flight, outside
\* the upload phase no upload request is in flight, and outside a phase both
\* lists of active requests are empty.
RequestsSettled ==
    /\ pc \notin {"dl_launch", "dl_await"} =>
           /\ \A r \in DOMAIN xhrs : xhrs[r].kind = "dl" => ~InFlight(xhrs[r])
           /\ activeDownloadRequests = <<>>
    /\ pc \notin {"ul_launch", "ul_await"} =>
           /\ \A r \in DOMAIN xhrs : xhrs[r].kind = "ul" => ~InFlight(xhrs[r])
           /\ activeUploadRequests = <<>>

\* The download phase has returned after it had started a replacement
\* stream.
ReturnedAfterReplacement ==
    /\ pc = "pause3"
    /\ phase.kind = "dl"
    /\ downloadRequestCount > downloadConcurrency

\* C9: a step that ends a phase (the bulk cancel) leaves no request in
\* flight, resolves the pending promise of every stream whose request was
\* in flight, and rejects no promise.
CancelResolves ==
    [][(pc \in {"dl_await", "ul_await"} /\ pc' \notin {"dl_await", "ul_await"})
       => /\ \A r \in DOMAIN xhrs' : ~InFlight(xhrs'[r])
          /\ \A p \in DOMAIN phase.promises :
                /\ (/\ phase.promises[p] = "pending"
                    /\ \E r \in DOMAIN xhrs :
                          InFlight(xhrs[r]) /\ xhrs[r].promise = p)
                   => phase'.promises[p] = "resolved"
                /\ phase'.promises[p] = "rejected"
                   => phase.promises[p] = "rejected"]_vars

\* The download phase went into its catch branch after one XHR event, and
\* the stream that did not fail has resolved: it was aborted.
CancelledInFlight ==
    /\ pc = "pause3"
    /\ phase.kind = "dl"
    /\ phase.race = "rejected"
    /\ netBudget = PhaseEvents - 1
    /\ \E p \in DOMAIN phase.promises : phase.promises[p] = "resolved"

\* A speed is a number.
IsNumber(speed) == speed.n >= 0 /\ speed.d > 0

\* C10: in the adaptive engine, the earlier static engine and the Next.js
\* client, no call of measureDownloadSpeed or measureUploadSpeed rejects,
\* and each one that has returned has returned a number.
MeasurementsNeverReject ==
    /\ rejected = {}
    /\ call.outcome # "rejected"
    /\ call.outcome = "resolved" => IsNumber(call.result)
    /\ "download" \in returned => IsNumber(testResult.downloadSpeed)
    /\ "upload" \in returned => IsNumber(testResult.uploadSpeed)

\* A call has resolved through its catch clause.
ResolvedByCatch ==
    /\ call.engine = "next"
    /\ call.outcome = "resolved"
    /\ call.result = Rat(0, 1)

\* The phase of the given type returns through the resolved branch of its
\* race in this step.
Concludes(type) ==
    /\ pc = (IF type = "download" THEN "dl_await" ELSE "ul_await")
    /\ phase.race = "resolved"
    /\ type \in returned' \ returned

\* The speed the phase of the given type has stored in the result.
ResultOf(result, type) ==
    IF type = "download" THEN result.downloadSpeed ELSE result.uploadSpeed

\* The percentile of each tier, in percent.
ClaimedPercent(ct) ==
    CASE ct = "slow" -> 50
      [] ct = "moderate" -> 75
      [] ct = "fast" -> 80
      [] ct = "very-fast" -> 85
      [] ct = "ultra-fast" -> 90

\* r is the speed at index idx (from 0) of the samples sorted ascending by
\* speed: a sample has speed r, at most idx samples are slower than r and
\* at least idx + 1 samples are not faster.
IsOrderStatistic(samples, idx, r) ==
    /\ \E i \in DOMAIN samples : samples[i].speed = r
    /\ Cardinality({i \in DOMAIN samples : RatLess(samples[i].speed, r)})
           <= idx
    /\ Cardinality({i \in DOMAIN samples : ~RatLess(r, samples[i].speed)})
           >= idx + 1

ClaimedFallback(ct, type) ==
    LET dl == type = "download"
    IN CASE ct = "slow" -> (IF dl THEN 5 ELSE 3)
         [] ct = "moderate" -> (IF dl THEN 30 ELSE 25)
         [] ct = "fast" -> (IF dl THEN 100 ELSE 80)
         [] ct = "very-fast" -> (IF dl THEN 500 ELSE 400)
         [] ct = "ultra-fast" -> (IF dl THEN 1000 ELSE 800)

\* C12: when a phase reduces an empty sample list on one of the five tiers,
\* nothing is thrown (the phase returns and its promise does not reject)
\* and the result is exactly the fallback speed of the tier and direction.
EmptyListFallback ==
    [][\A type \in {"download", "upload"} :
          (Concludes(type) /\ speedSamples = <<>> /\ connectionType \in Tiers)
          => /\ ResultOf(testResult', type)
                    = Rat(ClaimedFallback(connectionType, type), 1)
             /\ rejected' = {}]_vars

\* The upload phase of a fast run has reduced an empty sample list to
\* 80 Mbps and the run is complete.
EmptyListReduced ==
    /\ pc = "idle"
    /\ phase.kind = "ul"
    /\ phase.race = "resolved"
    /\ connectionType = "fast"
    /\ testStatus = TestStatus.COMPLETE
    /\ testResult.uploadSpeed = Rat(80, 1)

\* C13: the parameters adjustTestParameters sets do not decrease as the rank
\* of the tier increases, and a run whose probe has returned less than
\* 10 Mbps has the parameters of the slow tier (5 MB, 1 stream), which are
\* not assigned again before its download.
ParametersFollowTier ==
    /\ \A a, b \in DOMAIN TierRank :
          a <= b =>
             LET pa == AdjustedParameters(TierRank[a])
                 pb == AdjustedParameters(TierRank[b])
             IN /\ pa.downloadFileSize <= pb.downloadFileSize
                /\ pa.uploadChunkSize <= pb.uploadChunkSize
                /\ pa.downloadConcurrency <= pb.downloadConcurrency
                /\ pa.uploadConcurrency <= pb.uploadConcurrency
    /\ (pc = "pause1" /\ probeSpeed # NULL /\ probeSpeed < 10)
       => /\ downloadFileSize = 5 * MiB
          /\ downloadConcurrency = 1

\* C14: when every probe request of the run has failed, the probe has
\* returned (it did not throw) the speed 50 and the run is in the moderate
\* tier with the parameters of the moderate tier.
FailedProbesGiveModerate ==
    (/\ pc = "pause1"
     /\ \A k \in DOMAIN probe.outcomes : probe.outcomes[k] = FAIL)
    => /\ "probe" \in returned
       /\ probeSpeed = 50
       /\ connectionType = "moderate"
       /\ downloadFileSize = 15 * MiB
       /\ uploadChunkSize = 512 * 1024
       /\ downloadConcurrency = 2
       /\ uploadConcurrency = 2

\* C15: when probeConnectionSpeed has returned, either the small probe
\* succeeded with less than 5 Mbps, no 1 MB probe was issued and the speed
\* returned is that of the small probe, or the small probe failed or
\* measured 5 Mbps or more and exactly three 1 MB probes were issued; while
\* it runs, at most three are issued.
SmallProbeSkipsMain ==
    /\ Len(probe.outcomes) <= 1 + 3
    /\ pc = "pause1"
       => LET small == probe.outcomes[1]
              main == Len(probe.outcomes) - 1
          IN IF small # FAIL /\ small < 5
             THEN main = 0 /\ probeSpeed = small
             ELSE main = 3

\* probeConnectionSpeed has returned the 4 Mbps of its small probe.
SmallProbeOnly ==
    /\ pc = "pause1"
    /\ probe.outcomes = <<4>>
    /\ probeSpeed = 4

\* C16: when measureLatency has returned from at least 5 successful pings on
\* a tier whose trim fraction is 0.1, the trimmed set whose median is the
\* latency is the sorted pings without at least the smallest and the
\* largest one.
OutliersTrimmed ==
    (/\ pc = "pause2"
     /\ Len(ping.results) >= 5
     /\ connectionType \notin {"very-fast", "ultra-fast"})
    => LET n == Len(ping.results)
           sorted == SortNums(ping.results)
       IN \E k \in 1..(n \div 2) :
             TrimmedPings(ping.results, connectionType)
                 = SubSeq(sorted, k + 1, n - k)

\* C17: the jitter measureLatency reports from at least 5 successful pings
\* (on a host that is not local) is made of differences between pings of
\* the trimmed set only, so it does not exceed the difference between the
\* largest and the smallest ping of the trimmed set.
JitterAmongTrimmed ==
    (pc = "pause2" /\ Len(ping.results) >= 5 /\ ~isLocal)
    => LET trimmed == TrimmedPings(ping.results, connectionType)
       IN testResult.jitter <= trimmed[Len(trimmed)] - trimmed[1]

\* C18 as stated: measureLatency returns a result after exactly PING_TESTS
\* timed pings, each failed ping being skipped; with 1 to 4 successes the
\* latency is the plain mean of the successes, and with none the result is
\* 10 ms / 2 ms.
PlainMeanWhenFew ==
    /\ Len(ping.results) <= ping.i /\ ping.i <= PING_TESTS
    /\ pc = "pause2"
       => /\ "latency" \in returned
          /\ ping.i = PING_TESTS
          /\ Len(ping.results) \in 1..4
             => testResult.latency
                    = SumSeq(ping.results) \div Len(ping.results)
          /\ Len(ping.results) = 0
             => testResult.latency = 10000 /\ testResult.jitter = 2000

\* C18, amended: as above, but on a local host a mean below 0.5 ms is
\* reported as 0.5 ms.
MeanOrFloorWhenFew ==
    /\ Len(ping.results) <= ping.i /\ ping.i <= PING_TESTS
    /\ pc = "pause2"
       => /\ "latency" \in returned
          /\ ping.i = PING_TESTS
          /\ Len(ping.results) \in 1..4
             => LET mean == SumSeq(ping.results) \div Len(ping.results)
                IN testResult.latency
                       = (IF isLocal /\ mean < 500 THEN 500 ELSE mean)
          /\ Len(ping.results) = 0
             => testResult.latency = 10000 /\ testResult.jitter = 2000

\* On a local host measureLatency has returned 0.5 ms: 23 of the 25 timed
\* pings failed and the two that succeeded took 0.3 ms.
FewPingsSucceeded ==
    /\ pc = "pause2"
    /\ isLocal
    /\ ping.i = PING_TESTS
    /\ ping.results = <<300, 300>>
    /\ testResult.latency = 500

\* C19: on a local host the result of measureLatency has a latency of at
\* least 0.5 ms and a jitter of at least 0.1 ms.
LocalFloor ==
    (pc = "pause2" /\ isLocal)
    => testResult.latency >= 500 /\ testResult.jitter >= 100

RandomFillChunked ==
    /\ \A k \in DOMAIN fill.calls : fill.calls[k].length <= CRYPTO_BLOCK_SIZE
    /\ fill.fn = "generateRandomData" =>
          /\ fill.outcome # "thrown"
          /\ \A k \in DOMAIN fill.calls :
                /\ fill.calls[k].length > 0
                /\ k < Len(fill.calls) =>
                      fill.calls[k].offset + fill.calls[k].length
                          <= fill.calls[k + 1].offset
          /\ fill.outcome = "returned" =>
                /\ fill.size = 0 => fill.calls = <<>>
                /\ fill.size > 0 =>
                      /\ fill.calls # <<>>
                      /\ fill.calls[1].offset = 0
                      /\ \A k \in DOMAIN fill.calls :
                            fill.calls[k].offset + fill.calls[k].length =
                                IF k < Len(fill.calls)
                                THEN fill.calls[k + 1].offset
                                ELSE fill.size

\* C22: a GET of the test file with size = N, N no more than the cap of
\* 500 MB, announces Content-Length N, never writes more than it announced,
\* and has written exactly N bytes when the body ends.
TestFileHasRequestedSize ==
    (server.pc \in {"streaming", "ended", "failed"}
        /\ server.requested <= MaxTestFileSize) =>
        /\ server.announced = server.requested
        /\ server.written <= server.announced
        /\ server.pc = "ended" => server.written = server.requested

\* The events before event k that were dispatched to the same request.
EarlierEvents(k) ==
    {j \in 1..(k - 1) :
        events[j].r = events[k].r /\ events[j].kind = events[k].kind}

\* The event before event k on the same request (0: there is none).
PreviousEvent(k) ==
    IF EarlierEvents(k) = {} THEN 0
    ELSE CHOOSE j \in EarlierEvents(k) : \A i \in EarlierEvents(k) : i <= j

WindowMs(k) == events[k].time - events[PreviousEvent(k)].time

\* C24: a sample recorded by a download stream equals the megabits received
\* since the previous progress event of that stream over the time since
\* that event (the clock having moved between the two events).
DownloadSampleOverWindow ==
    \A k \in DOMAIN events :
        (/\ events[k].kind = "dl"
         /\ events[k].pushed
         /\ PreviousEvent(k) # 0
         /\ WindowMs(k) > 0) =>
            events[k].speed.n * WindowMs(k)
                = events[k].mbit * 1000 * events[k].speed.d

\* The host is local and the tier is very-fast or ultra-fast.
LocalFastTier == isLocal /\ connectionType \in {"very-fast", "ultra-fast"}

SimPcs == {"dl_sim", "ul_sim"}

\* The direction of the throughput phase at position p.
TypeAt(p) == IF p \in DownloadPcs THEN "download" ELSE "upload"

\* C25: a throughput phase is simulated exactly when the host is local and
\* the tier is very-fast or ultra-fast; a simulated phase creates no request
\* and records only its own samples, none before the end of warm-up; it
\* resolves once, not before the target duration, with the reduction of
\* these samples.
SimulationReplacesNetwork ==
    /\ [](pc \in DownloadPcs \cup UploadPcs =>
             /\ pc \in SimPcs <=> LocalFastTier
             /\ pc \in SimPcs =>
                   /\ xhrs = <<>>
                   /\ downloadRequestCount = 0
                   /\ uploadRequestCount = 0
                   /\ \A k \in DOMAIN speedSamples :
                         /\ speedSamples[k].by = TypeAt(pc)
                         /\ speedSamples[k].time - phase.timerSetAt
                               >= WARMUP_DURATION * 1000)
    /\ [][(pc \in SimPcs /\ pc' # pc) =>
             /\ TypeAt(pc) \in returned' \ returned
             /\ now - phase.timerSetAt >=
                   (IF pc = "dl_sim" THEN TARGET_DL_DURATION
                    ELSE TARGET_UL_DURATION) * 1000
             /\ ResultOf(testResult', TypeAt(pc)) =
                   calculateFinalSpeed(speedSamples, connectionType,
                                       TypeAt(pc))]_vars

\* A simulated download has resolved with the reduction of the samples it
\* recorded, and no request was created.
SimulatedDownloadResolved ==
    /\ pc = "pause3"
    /\ LocalFastTier
    /\ speedSamples # <<>>
    /\ xhrs = <<>>
    /\ testResult.downloadSpeed =
           calculateFinalSpeed(speedSamples, connectionType, "download")

\* C26: the progress percentage a throughput phase reports before it has
\* concluded is never above 99; here for a simulated phase, whose interval
\* callback has just reported.
ProgressCappedAt99 ==
    (pc \in SimPcs /\ phase.simFired) =>
        LET progress ==
                SimProgress(now - phase.timerSetAt,
                            IF pc = "dl_sim" THEN TARGET_DL_DURATION
                            ELSE TARGET_UL_DURATION)
        IN progress.n <= 99 * progress.d

\* C27: in a run of startTest, latency and jitter change only when the
\* latency phase returns, downloadSpeed only when the download phase
\* returns, uploadSpeed only when the upload phase returns, each phase
\* returning at most once in the run; and the status becomes COMPLETE, with
\* the results shown, only when the three phases have returned.
ResultFieldsWrittenOnce ==
    [][/\ (testResult'.latency # testResult.latency
              \/ testResult'.jitter # testResult.jitter) =>
             pc \in LatencyPcs /\ "latency" \in returned' \ returned
       /\ testResult'.downloadSpeed # testResult.downloadSpeed =>
             pc \in DownloadPcs /\ "download" \in returned' \ returned
       /\ testResult'.uploadSpeed # testResult.uploadSpeed =>
             pc \in UploadPcs /\ "upload" \in returned' \ returned
       /\ (testStatus' = TestStatus.COMPLETE
              /\ testStatus # TestStatus.COMPLETE) =>
             {"latency", "download", "upload"} \subseteq returned'
      ]_vars

\* A run is complete and each of its phases has stored a result.
AllFieldsWritten ==
    /\ testStatus = TestStatus.COMPLETE
    /\ returned = {"probe", "latency", "download", "upload"}
    /\ testResult.latency > 0
    /\ testResult.downloadSpeed.n > 0
    /\ testResult.uploadSpeed.n > 0

\* C28: the tier and the test parameters change only in the step in which
\* the probe returns and adjustTestParameters runs; the latency, download
\* and upload phases, their stream callbacks included, leave them as they
\* are.
ParametersSetByProbeOnly ==
    [][(connectionType' # connectionType \/ paramVars' # paramVars) =>
          pc \in ProbePcs /\ pc' = "pause1"]_vars

\* Every stream of an upload phase of more than one stream has been started
\* with the parameters the probe has left.
StreamsShareParameters ==
    /\ pc = "ul_await"
    /\ uploadConcurrency > 1
    /\ phase.launched = uploadConcurrency
    /\ connectionType \in Tiers
    /\ paramVars = <<AdjustedParameters(connectionType).downloadFileSize,
                     AdjustedParameters(connectionType).uploadChunkSize,
                     AdjustedParameters(connectionType).uploadConcurrency,
                     AdjustedParameters(connectionType).downloadConcurrency>>

RunOrder == <<"idle", "download", "upload", "complete">>

IsAnnouncement(e) == ~e.data

\* The statuses announced without data, in the order of the calls.
Announcements(log) ==
    LET a == SelectSeq(log, IsAnnouncement)
    IN [k \in 1..Len(a) |-> a[k].status]

\* C30: the calls of onProgress without data are idle, download, upload,
\* complete, once each and in that order; a call with data carries the
\* status of the last announcement before it, which is download or upload;
\* the promise of runSpeedTest is resolved, and the result shown, only after
\* complete has been announced.
CallbacksInOrder ==
    /\ IsPrefix(Announcements(run.log), RunOrder)
    /\ \A k \in 1..Len(run.log) :
         run.log[k].data =>
             LET before == Announcements(SubSeq(run.log, 1, k))
             IN /\ run.log[k].status \in {"download", "upload"}
                /\ before # <<>>
                /\ before[Len(before)] = run.log[k].status
    /\ (run.pc = "resolved" \/ run.showResults) =>
           /\ Announcements(run.log) = RunOrder
           /\ run.log[Len(run.log)].status = "complete"

\* A call has returned after data callbacks in both phases.
RunReportedBothPhases ==
    /\ run.showResults
    /\ ~run.isRunning
    /\ \E k \in 1..Len(run.log) :
         run.log[k].data /\ run.log[k].status = "download"
    /\ \E k \in 1..Len(run.log) :
         run.log[k].data /\ run.log[k].status = "upload"

\* C31: a throughput phase on the network path returns whatever the network
\* does: while it awaits its race no more than the target duration plus the
\* grace period has passed since the race was set up, the phase leaves the
\* await, and the step that leaves it leaves no request in flight.
PhaseTerminates ==
    /\ [](/\ pc = "dl_await" =>
                now - phase.timerSetAt <= TARGET_DL_DURATION * 1000 + GRACE_MS
          /\ pc = "ul_await" =>
                now - phase.timerSetAt <= TARGET_UL_DURATION * 1000 + GRACE_MS)
    /\ (pc \in {"dl_launch", "dl_await"}) ~> ("download" \in returned)
    /\ (pc \in {"ul_launch", "ul_await"}) ~> ("upload" \in returned)
    /\ [][(pc \in {"dl_await", "ul_await"} /\ pc' \notin {"dl_await", "ul_await"})
          => \A r \in DOMAIN xhrs' : ~InFlight(xhrs'[r])]_vars

\* The download phase has returned at the expiry of the grace timer without
\* any event from the network.
ReturnedAtGraceExpiry ==
    /\ pc = "pause3"
    /\ phase.kind = "dl"
    /\ netBudget = PhaseEvents
    /\ now - phase.timerSetAt = TARGET_DL_DURATION * 1000 + GRACE_MS

\* C32: an upload request that ends in an error, a timeout or a non-2xx
\* status is followed by a next request of its stream if less than
\* TARGET_UL_DURATION has elapsed, and otherwise by none, the promise of the
\* stream being resolved; and every upload request is issued by the running
\* upload phase before TARGET_UL_DURATION has elapsed.
UploadRetriesBounded ==
    [][/\ \A r \in DOMAIN xhrs :
             (/\ r \in DOMAIN xhrs'
              /\ xhrs[r].kind = "ul"
              /\ InFlight(xhrs[r])
              /\ xhrs'[r].state = "failed")
             => IF now - testStartTime < TARGET_UL_DURATION * 1000
                THEN /\ StartedFor(xhrs[r].slot, "ul")
                     /\ uploadRequestCount' = uploadRequestCount + 1
                ELSE /\ uploadRequestCount' = uploadRequestCount
                     /\ Len(xhrs') = Len(xhrs)
                     /\ phase'.promises[xhrs[r].promise] = "resolved"
       /\ uploadRequestCount' > uploadRequestCount
             => /\ pc \in {"ul_gen", "ul_launch", "ul_await"}
                /\ pc' \in {"ul_launch", "ul_await"}
                /\ now - testStartTime < TARGET_UL_DURATION * 1000]_vars

\* An upload request has failed after the target duration and its stream
\* has resolved, after an earlier failure of the stream was retried.
FailedUploadResolved ==
    /\ pc = "ul_await"
    /\ \E r \in DOMAIN xhrs :
          /\ xhrs[r].kind = "ul"
          /\ xhrs[r].state = "failed"
          /\ now - testStartTime >= TARGET_UL_DURATION * 1000
          /\ phase.promises[xhrs[r].promise] = "resolved"
          /\ \E q \in DOMAIN xhrs :
                /\ q < r
                /\ xhrs[q].kind = "ul"
                /\ xhrs[q].slot = xhrs[r].slot
                /\ xhrs[q].state = "failed"

\* The differences |latency[i] - latency[i-1]| of adjacent samples.
ConsecutiveDifferences(s) ==
    [k \in 1..(Len(s) - 1) |->
        IF s[k + 1] >= s[k] THEN s[k + 1] - s[k] ELSE s[k] - s[k + 1]]

\* C33: the jitter the earlier static engine and the Next.js client report
\* from at least two successful pings is an average of the differences
\* between consecutive pings: it lies between the smallest and the largest
\* of them.
JitterIsConsecutive ==
    (/\ call.fn = "latency"
     /\ call.pc = "done"
     /\ Len(call.samples) >= 2)
    => LET d == ConsecutiveDifferences(call.samples)
           j == call.result.jitter
       IN /\ \E k \in DOMAIN d : ~RatLess(j, Rat(d[k], 1))
          /\ \E k \in DOMAIN d : ~RatLess(Rat(d[k], 1), j)

\* The probe measurements that count as samples: the positive speeds.
SuccessfulProbes(outcomes) == SelectSeq(outcomes, LAMBDA o : o > 0)

\* C34: when probeConnectionSpeed has returned, a small probe that threw or
\* measured a non-positive speed was followed by the PROBE_COUNT main probes,
\* and if any probe measured a positive speed the value returned is the
\* median of the positive speeds measured.
ProbeReturnsMedian ==
    pc = "pause1" =>
        /\ probe.outcomes[1] <= 0 => Len(probe.outcomes) = 1 + PROBE_COUNT
        /\ SuccessfulProbes(probe.outcomes) # <<>> =>
               probeSpeed =
                   MedianOfSorted(SortNums(SuccessfulProbes(probe.outcomes)))

\* The requests of a kind that are in flight.
InFlightOf(kind) ==
    {r \in DOMAIN xhrs : xhrs[r].kind = kind /\ InFlight(xhrs[r])}

\* C35: in the download phase at most downloadConcurrency download requests
\* are in flight, and in the upload phase at most uploadConcurrency upload
\* requests, no two of them for the same stream.
ConcurrencyBounded ==
    /\ pc \in {"dl_launch", "dl_await"} =>
           Cardinality(InFlightOf("dl")) <= downloadConcurrency
    /\ pc \in {"ul_gen", "ul_launch", "ul_await"} =>
           Cardinality(InFlightOf("ul")) <= uploadConcurrency
    /\ \A q, r \in InFlightOf("dl") \cup InFlightOf("ul") :
           (xhrs[q].kind = xhrs[r].kind /\ xhrs[q].slot = xhrs[r].slot)
           => q = r

\* After a request of a stream has been followed by another, as many
\* requests are in flight as the concurrency allows, in either phase.
ConcurrencyReached ==
    \/ /\ pc = "ul_await"
       /\ uploadConcurrency > 1
       /\ uploadRequestCount > uploadConcurrency
       /\ Cardinality(InFlightOf("ul")) = uploadConcurrency
    \/ /\ pc = "dl_await"
       /\ downloadConcurrency > 1
       /\ downloadRequestCount > downloadConcurrency
       /\ Cardinality(InFlightOf("dl")) = downloadConcurrency

\* The requests a list of active requests holds.
Held(active) == {active[k] : k \in DOMAIN active}

\* C36: the lists of active requests hold exactly the requests in flight:
\* activeDownloadRequests the download requests in flight and
\* activeUploadRequests the upload requests in flight.
ActiveSetIsInFlight ==
    /\ Held(activeDownloadRequests) = InFlightOf("dl")
    /\ Held(activeUploadRequests) = InFlightOf("ul")

RunOver == runs > 0 /\ pc = "idle"

OneRunAtATime ==
    /\ [][(isRunning /\ StartClick) => UNCHANGED vars]_vars
    /\ [][runs' # runs => (~isRunning /\ pc = "idle" /\ pc' = "probe_small")]_vars
    /\ [](isRunning <=> pc # "idle")
    /\ [](RunOver =>
            /\ ~isRunning
            /\ activeDownloadRequests = <<>>
            /\ activeUploadRequests = <<>>
            /\ \A r \in DOMAIN xhrs : ~InFlight(xhrs[r])
            /\ ~progressInterval
            /\ (runs < MaxRuns => ENABLED (StartClick /\ runs' = runs + 1)))

\* The second run is sending its main probes: the tier that the first run
\* found is still set.
SecondRunStarted ==
    /\ runs = 2
    /\ isRunning
    /\ pc = "probe_main"
    /\ connectionType # "unknown"

(***************************************************************************)
(* C39: in measureLatency, whenever n >= 5 pings have succeeded, the       *)
(* trimmed pings are not empty for the trim fraction of the tier (0.1 or   *)
(* 0.2); the latency returned on a non-local host is then at least the     *)
(* smallest and at most the largest successful ping; and the number of     *)
(* jitter values is max(0, n - 1) for every n.                             *)
(***************************************************************************)
SmallestPing == SortNums(ping.results)[1]
LargestPing == SortNums(ping.results)[Len(ping.results)]

TrimLeavesPings ==
    LET n == Len(ping.results)
    IN /\ Len(ping.jitter) = Max(0, n - 1)
       /\ n >= 5 =>
            /\ Len(TrimmedPings(ping.results, connectionType)) > 0
            /\ (pc = "pause2" /\ ~isLocal) =>
                  /\ SmallestPing <= testResult.latency
                  /\ testResult.latency <= LargestPing

\* Every ping of a test on a non-local host of the very-fast tier has
\* succeeded, with different round-trip times: five are trimmed from each
\* end and the latency is the median of the rest.
AllPingsTrimmed ==
    /\ pc = "pause2"
    /\ ~isLocal
    /\ connectionType = "very-fast"
    /\ Len(ping.results) = PING_TESTS
    /\ Len(TrimmedPings(ping.results, connectionType)) = 15
    /\ SmallestPing < testResult.latency
    /\ testResult.latency < LargestPing

(***************************************************************************)
(* C40: for a non-empty list of samples, calculateFinalSpeed returns the   *)
(* speed of one of the samples; it returns the same speed for every order  *)
(* of the samples; and a second application, which finds the list sorted   *)
(* by the first one, returns the same speed again.                         *)
(***************************************************************************)
\* The orders of a list of n elements.
Orders(n) == Permutations(1..n)

\* The test type of the phase that is about to reduce its samples.
ConcludingType ==
    IF pc = "dl_await" THEN "download"
    ELSE IF pc = "ul_await" THEN "upload"
    ELSE "none"

FinalSpeedOfSamples ==
    /\ [](ConcludingType # "none" /\ Len(speedSamples) > 0 =>
            LET n == Len(speedSamples)
                final == calculateFinalSpeed(speedSamples, connectionType,
                                             ConcludingType)
            IN /\ \E k \in 1..n : final = speedSamples[k].speed
               /\ \A f \in Orders(n) :
                     calculateFinalSpeed([k \in 1..n |-> speedSamples[f[k]]],
                                         connectionType, ConcludingType)
                         = final
               /\ calculateFinalSpeed(SortSamples(speedSamples),
                                      connectionType, ConcludingType) = final)
    /\ [][(pc = "dl_await" /\ pc' = "pause3" /\ Len(speedSamples) > 0) =>
            /\ \E k \in DOMAIN speedSamples :
                  testResult'.downloadSpeed = speedSamples[k].speed
            /\ calculateFinalSpeed(speedSamples', connectionType, "download")
                   = testResult'.downloadSpeed]_vars

\* measureDownloadSpeed has reduced five samples of the slow tier, which
\* it left sorted: the result is the median, between the slowest and the
\* fastest sample.
MedianOfFiveReturned ==
    /\ pc = "pause3"
    /\ connectionType = "slow"
    /\ Len(speedSamples) = MaxSamples
    /\ speedSamples[1].speed = Rat(10, 1)
    /\ speedSamples[MaxSamples].speed = Rat(30, 1)
    /\ testResult.downloadSpeed = Rat(20, 1)

====
